---- MODULE Spec2Model ----
(***************************************************************************)
(* Model of the PR review agent: the markdown wrapper sanitizer            *)
(* (utils/text_cleanup.py), the CLI-backed platform adapters               *)
(* (platforms/*.py) with their factory, the tool functions (tools.py) and  *)
(* one run of the review (main.py, workflow.py).                           *)
(*                                                                         *)
(* Text is a sequence of one-character strings.  Python values are records *)
(* [type, str, num]; the outcome of a call is [exc, value].                *)
(***************************************************************************)
EXTENDS Integers, Sequences, FiniteSets, TLC

VARIABLES
  san_in,     \* the value handed to the sanitizer
  san_out,    \* the outcome of sanitizing san_in
  san_again,  \* the outcome of sanitizing the result of the first call
  pkg,        \* the revision of the package that runs
  env,        \* os.environ
  adapters,   \* the platform adapter objects constructed so far
  last,       \* the latest adapter call with its outcome and the process it started
  run,        \* one run of main() / workflow(): its position and local variables
  trace,      \* the adapter calls, LLM calls and sanitizer calls made so far, in order
  cache,      \* tools._platform_cache: provider key -> index of the adapter object
  tool,       \* the latest call of a tool function with its result
  threads     \* the calls of _get_or_create_platform that run side by side

vars ==
  <<san_in, san_out, san_again, pkg, env, adapters, last, run, trace, cache, tool, threads>>
sanVars == <<san_in, san_out, san_again>>
adapterVars == <<pkg, env, adapters, last>>
runVars == <<run, trace, cache, tool, threads>>

(***************************************************************************)
(* Bounds of the model.                                                    *)
(***************************************************************************)
\* the number of lines of an LLM text handed to the sanitizer
MaxLines == 5
\* the number of adapter objects constructed in one run of the process
MaxAdapters == 2
\* the number of tool calls the LLM makes in one run
MaxToolCalls == 2
\* the number of tool calls that run at the same time
MaxThreads == 2

(***************************************************************************)
(* Python values and call outcomes.                                        *)
(***************************************************************************)
PyStr(s) == [type |-> "str", str |-> s, num |-> 0]
PyNone == [type |-> "NoneType", str |-> <<>>, num |-> 0]
PyInt(n) == [type |-> "int", str |-> <<>>, num |-> n]
\* a list / dict of n elements
PyList(n) == [type |-> "list", str |-> <<>>, num |-> n]
PyDict(n) == [type |-> "dict", str |-> <<>>, num |-> n]

\* bool(v): None, 0, "", [] and {} are falsy
Truthy(v) ==
  CASE v.type = "str" -> Len(v.str) > 0
    [] v.type = "NoneType" -> FALSE
    [] OTHER -> v.num # 0

isinstance_str(v) == v.type = "str"

Return(v) == [exc |-> "none", value |-> v]
Raise(e) == [exc |-> e, value |-> PyNone]
\* no call has been made yet
Pending == [exc |-> "pending", value |-> PyNone]

(***************************************************************************)
(* Strings.                                                                *)
(***************************************************************************)
SetMin(S) == CHOOSE x \in S : \A y \in S : x <= y
SetMax(S) == CHOOSE x \in S : \A y \in S : x >= y

\* str.isspace() for one character, the class \s of the re module
Whitespace == {" ", "\t", "\n", "\r", "\f"}
IsSpace(c) == c \in Whitespace

\* str.strip()
Strip(s) ==
  LET keep == {i \in 1..Len(s) : ~IsSpace(s[i])}
  IN IF keep = {} THEN <<>> ELSE SubSeq(s, SetMin(keep), SetMax(keep))

\* the word w stands in s at position i
HasAt(s, i, w) == i >= 1 /\ i + Len(w) - 1 <= Len(s) /\ SubSeq(s, i, i + Len(w) - 1) = w

\* s[from..to - 1] is whitespace only
AllSpace(s, from, to) == \A k \in from..(to - 1) : IsSpace(s[k])

\* the backtick is written "^": a TLA+ string cannot hold the character itself
Backtick == "^"
Fence == <<Backtick, Backtick, Backtick>>
NL == <<"\n">>
WordMarkdown == <<"m", "a", "r", "k", "d", "o", "w", "n">>
WordMd == <<"m", "d">>

\* the alternatives of (?:markdown|md)? in the order the engine tries them
WrapperLabels == <<WordMarkdown, WordMd, <<>>>>

\* positions at which $ matches (no MULTILINE): the end, or before a final newline
DollarPositions(s) ==
  {Len(s) + 1} \cup (IF Len(s) > 0 /\ s[Len(s)] = "\n" THEN {Len(s)} ELSE {})

\* the opening pattern with any word for a label, r"^```\w*\s*\n"
OpenEndsAnyLabel(s) ==
  {e \in 1..Len(s) :
     /\ s[e] = "\n"
     /\ HasAt(s, 1, Fence)
     /\ \E k \in 4..e :
          /\ \A j \in 4..(k - 1) : ~IsSpace(s[j]) /\ s[j] # Backtick
          /\ AllSpace(s, k, e)}

\* re.match(r"^```(?:markdown|md)?\s*\n", s): the positions of the \n ending a match
OpenEnds(s) ==
  {e \in 1..Len(s) :
     /\ s[e] = "\n"
     /\ HasAt(s, 1, Fence)
     /\ \E l \in 1..Len(WrapperLabels) :
          /\ HasAt(s, 4, WrapperLabels[l])
          /\ e >= 4 + Len(WrapperLabels[l])
          /\ AllSpace(s, 4 + Len(WrapperLabels[l]), e)}

MatchesOpen(s) == OpenEnds(s) # {}

\* re.search(r"\n```\s*$", s): the positions of the \n starting a match
CloseStarts(s) ==
  {i \in 1..Len(s) :
     /\ HasAt(s, i, NL \o Fence)
     /\ \E p \in DollarPositions(s) : p >= i + 4 /\ AllSpace(s, i + 4, p)}

SearchesClose(s) == CloseStarts(s) # {}

\* the full pattern with a lazy group and no anchor at the end,
\* r"^```(?:markdown|md)?\s*\n(.*?)\n```": the content stops at the first fence
FullMatchFirstFence(s) ==
  LET fences == {i \in 1..Len(s) : HasAt(s, i, NL \o Fence)}
      opens == {e \in OpenEnds(s) : \E i \in fences : i > e}
  IN IF opens = {} THEN [matched |-> FALSE, group1 |-> <<>>]
     ELSE LET e == SetMax(opens)
              i == SetMin({j \in fences : j > e})
          IN [matched |-> TRUE, group1 |-> SubSeq(s, e + 1, i - 1)]

\* re.match(r"^```(?:markdown|md)?\s*\n(.*)\n```\s*$", s, re.DOTALL): group 1 of the
\* match the backtracking engine finds first (\s* greedy, then .* greedy)
FullMatch(s) ==
  LET opens == {e \in OpenEnds(s) : \E i \in CloseStarts(s) : i > e}
  IN IF opens = {} THEN [matched |-> FALSE, group1 |-> <<>>]
     ELSE LET e == SetMax(opens)
              i == SetMax({j \in CloseStarts(s) : j > e})
          IN [matched |-> TRUE, group1 |-> SubSeq(s, e + 1, i - 1)]

\* line 38 with the isinstance test left out
NotTextualNoTypeCheck(v) == ~Truthy(v)

\* line 38: not text or not isinstance(text, str)
NotTextual(v) == ~Truthy(v) \/ ~isinstance_str(v)

\* lines 59-63 with the wrapped content scanned again for a further wrapper, as
\* the earlier revision did
RECURSIVE ExtractRecursive(_)
ExtractRecursive(text) ==
  LET match == FullMatch(text)
      inner == Strip(match.group1)
  IN IF ~match.matched THEN text
     ELSE IF MatchesOpen(inner) /\ SearchesClose(inner) THEN ExtractRecursive(inner)
     ELSE inner

\* lines 59-63 with the extracted content returned untrimmed
ExtractUntrimmed(text) ==
  LET match == FullMatch(text)
  IN IF match.matched THEN match.group1 ELSE text

\* lines 57-66: the content of the complete wrapper, or the text as it is
ExtractWrapped(text) ==
  LET match == FullMatch(text)
  IN IF match.matched THEN Strip(match.group1) ELSE text

\* text.strip() of line 42: a value that is no string has no such method
PyStrip(v) ==
  IF isinstance_str(v) THEN Return(PyStr(Strip(v.str))) ELSE Raise("AttributeError")

strip_markdown_wrapper(v) ==
  IF NotTextual(v) THEN Return(v)
  ELSE LET stripped == PyStrip(v)
           text == stripped.value.str
       IN IF stripped.exc # "none" THEN stripped
          ELSE IF ~MatchesOpen(text) THEN Return(PyStr(text))
          ELSE IF ~SearchesClose(text) THEN Return(PyStr(text))
          ELSE Return(PyStr(ExtractWrapped(text)))

(***************************************************************************)
(* The sanitizer of the agent revision (src/agent/utils/text_cleanup.py).  *)
(***************************************************************************)
\* re.match(pattern_full, s, re.DOTALL) with pattern_full =
\* r'^```(?:markdown|md)?\s*\n(.*?)(?:\n```\s*)?$': group 1 of the match the engine
\* finds first (\s* greedy, the group lazy: it ends at the first closing fence that
\* reaches the end, else at the first position of $)
FullMatchLazy(s) ==
  IF OpenEnds(s) = {} THEN [matched |-> FALSE, group1 |-> <<>>]
  ELSE LET e == SetMax(OpenEnds(s))
           ends == {i \in CloseStarts(s) \cup DollarPositions(s) : i > e}
       IN [matched |-> TRUE, group1 |-> SubSeq(s, e + 1, SetMin(ends) - 1)]

\* re.sub(r'\n?```\s*$', '', content): the leftmost fence with only whitespace after
\* it is cut off, with the line break before it
SubTrailingFence(content) ==
  LET starts == {j \in 1..Len(content) :
                   \/ HasAt(content, j, NL \o Fence) /\ AllSpace(content, j + 4, Len(content) + 1)
                   \/ HasAt(content, j, Fence) /\ AllSpace(content, j + 3, Len(content) + 1)}
  IN IF starts = {} THEN content ELSE SubSeq(content, 1, SetMin(starts) - 1)

\* lines 42-59 for a text that is a str and not empty
RECURSIVE StripWrappersAgent(_)
StripWrappersAgent(t) ==
  LET text == Strip(t)
      match == FullMatchLazy(text)
      content == Strip(SubTrailingFence(match.group1))
  IN IF MatchesOpen(text) /\ match.matched
     THEN (IF Len(content) = 0 THEN content ELSE StripWrappersAgent(content))
     ELSE text

\* strip_markdown_wrapper of src/agent/utils/text_cleanup.py
strip_markdown_wrapper_agent(v) ==
  IF NotTextual(v) THEN Return(v) ELSE Return(PyStr(StripWrappersAgent(v.str)))

(***************************************************************************)
(* The texts the sanitizer is applied to: up to MaxLines lines joined by   *)
(* line breaks, and the values that are no strings.                        *)
(***************************************************************************)
TextLines ==
  { <<>>,
    <<"x">>,
    Fence,
    Fence \o WordMarkdown,
    Fence \o WordMd \o <<" ">>,
    Fence \o <<"x">>,
    Fence \o <<Backtick>> }

RECURSIVE JoinLines(_)
JoinLines(ls) ==
  IF Len(ls) = 0 THEN <<>>
  ELSE IF Len(ls) = 1 THEN ls[1]
  ELSE ls[1] \o NL \o JoinLines(Tail(ls))

Texts ==
  UNION {{JoinLines(ls) : ls \in [1..n -> TextLines]} : n \in 0..MaxLines}

SanitizerInputs ==
  {PyStr(t) : t \in Texts}
    \cup {PyNone, PyInt(0), PyInt(123), PyList(0), PyList(1), PyDict(0)}

(***************************************************************************)
(* JSON values, as json.loads builds them.                                 *)
(***************************************************************************)
NoFields == [k \in {} |-> 0]
JStr(x) == [kind |-> "str", s |-> x, fields |-> NoFields]
JNull == [kind |-> "None", s |-> "", fields |-> NoFields]
JNum == [kind |-> "int", s |-> "", fields |-> NoFields]
JList == [kind |-> "list", s |-> "", fields |-> NoFields]
\* a dict with the keys DOMAIN f
JDict(f) == [kind |-> "dict", s |-> "", fields |-> f]

(***************************************************************************)
(* Exceptions and external processes.                                      *)
(***************************************************************************)
NoOutput == <<>>
NoExc == [type |-> "none", returncode |-> 0, stdout |-> NoOutput, stderr |-> ""]
Exc(t) == [type |-> t, returncode |-> 0, stdout |-> NoOutput, stderr |-> ""]
\* subprocess.CalledProcessError(returncode, cmd, output, stderr)
CalledProcessError(p) ==
  [type |-> "CalledProcessError", returncode |-> p.rc, stdout |-> p.stdout,
   stderr |-> p.stderr]

\* the outcome of an adapter method: the exception that left it, or the value
CallRaised(e) == [exc |-> e, value |-> JNull, text |-> NoOutput]
CallReturned(v) == [exc |-> NoExc, value |-> v, text |-> NoOutput]
CallReturnedText(t) == [exc |-> NoExc, value |-> JNull, text |-> t]

\* subprocess.run with check=True left out: the exit code is never looked at
subprocess_run_unchecked(p, check) ==
  IF ~p.found THEN Exc("FileNotFoundError") ELSE NoExc

\* subprocess.run(cmd, capture_output=True, text=True, check=check) of a process
\* that ends as p says: the exception it raises
subprocess_run(p, check) ==
  IF ~p.found THEN Exc("FileNotFoundError")
  ELSE IF check /\ p.rc # 0 THEN CalledProcessError(p)
  ELSE NoExc

\* the standard output of a CLI is a sequence of chunks: a JSON document, an ANSI
\* escape sequence, or other text
JsonChunk(d) == [kind |-> "json", doc |-> d]
AnsiChunk == [kind |-> "ansi", doc |-> JNull]
TextChunk == [kind |-> "text", doc |-> JNull]

\* json.loads(out): one document and nothing else, or JSONDecodeError
json_loads(out) ==
  IF Len(out) = 1 /\ out[1].kind = "json" THEN CallReturned(out[1].doc)
  ELSE CallRaised(Exc("JSONDecodeError"))

\* ansi_escape.sub('', out)
ansi_escape_sub(out) == SelectSeq(out, LAMBDA c : c.kind # "ansi")

\* d.get(key, default) of a value d: only a dict has the method
HasGet(d) == d.kind = "dict"
dict_get(d, key, default) ==
  IF key \in DOMAIN d.fields THEN d.fields[key] ELSE default

(***************************************************************************)
(* The environment and the command lines.                                  *)
(***************************************************************************)
\* os.getenv of a variable that is not set
Unset == "<unset>"
getenv(name) == env[name]
getenv_default(name, default) == IF env[name] = Unset THEN default ELSE env[name]
\* the truth value of an os.getenv result: None and "" are falsy
IsSet(v) == v # Unset /\ v # ""

\* an element of a command line: a word, or a text of characters (a comment body)
W(x) == [word |-> x, text |-> <<>>]
T(t) == [word |-> "", text |-> t]

\* a process that was started: its command line, the token variables of the
\* environment it was given, and how it ended
Started(cmd, penv, p) ==
  [argv |-> cmd, env |-> penv, rc |-> p.rc, stdout |-> p.stdout, stderr |-> p.stderr]
\* subprocess.run wrapped in a retry: a process that failed is started once more
RunRetrying(cmd, penv, p) ==
  IF ~p.found THEN <<>>
  ELSE IF p.rc # 0 THEN <<Started(cmd, penv, p), Started(cmd, penv, p)>>
  ELSE <<Started(cmd, penv, p)>>

\* the processes a call of subprocess.run(cmd, env=penv) started
Run(cmd, penv, p) == IF p.found THEN <<Started(cmd, penv, p)>> ELSE <<>>

\* os.environ, as far as the tokens go
InheritedEnv == [GH_TOKEN |-> env.GH_TOKEN, GITLAB_TOKEN |-> env.GITLAB_TOKEN]

(***************************************************************************)
(* The factory and the adapter classes.                                    *)
(***************************************************************************)
UpperToLower ==
  [A |-> "a", B |-> "b", C |-> "c", D |-> "d", E |-> "e", F |-> "f", G |-> "g",
   H |-> "h", I |-> "i", J |-> "j", K |-> "k", L |-> "l", M |-> "m", N |-> "n",
   O |-> "o", P |-> "p", Q |-> "q", R |-> "r", S |-> "s", T |-> "t", U |-> "u",
   V |-> "v", W |-> "w", X |-> "x", Y |-> "y", Z |-> "z"]

\* str.lower()
Lower(s) ==
  [i \in 1..Len(s) |-> IF s[i] \in DOMAIN UpperToLower THEN UpperToLower[s[i]] ELSE s[i]]

\* str.replace(old, new), old not empty
RECURSIVE Replace(_, _, _)
Replace(s, old, new) ==
  IF Len(s) = 0 THEN <<>>
  ELSE IF HasAt(s, 1, old) THEN new \o Replace(SubSeq(s, Len(old) + 1, Len(s)), old, new)
  ELSE <<s[1]>> \o Replace(Tail(s), old, new)

KeyGithub == <<"g", "i", "t", "h", "u", "b">>
KeyGitlab == <<"g", "i", "t", "l", "a", "b">>
WordPlatform == <<"P", "l", "a", "t", "f", "o", "r", "m">>

\* __class__.__name__ of the two adapter classes
ClassName(cls) ==
  IF cls = "GitHubPlatform" THEN <<"G", "i", "t", "H", "u", "b">> \o WordPlatform
  ELSE <<"G", "i", "t", "L", "a", "b">> \o WordPlatform

\* the providers dictionary of get_platform
providers(key) == IF key = KeyGithub THEN "GitHubPlatform" ELSE "GitLabPlatform"
ProviderKeys == {KeyGithub, KeyGitlab}

\* __init__: a fresh adapter object
NewAdapter(cls) == [cls |-> cls, auth_method |-> "None", token |-> Unset]
NoAdapter == [cls |-> "none", auth_method |-> "None", token |-> Unset]

\* get_platform with the provider compared as it was given
get_platform_case_sensitive(provider) ==
  IF provider \notin ProviderKeys
  THEN [exc |-> Exc("ValueError"), obj |-> NoAdapter]
  ELSE [exc |-> NoExc, obj |-> NewAdapter(providers(provider))]

\* get_platform(provider): the exception, or the object constructed
get_platform(provider) ==
  LET provider_lower == Lower(provider)
  IN IF provider_lower \notin ProviderKeys
     THEN [exc |-> Exc("ValueError"), obj |-> NoAdapter]
     ELSE [exc |-> NoExc, obj |-> NewAdapter(providers(provider_lower))]

\* GitPlatform.get_platform_name
get_platform_name(self) == Replace(ClassName(self.cls), WordPlatform, <<>>)

(***************************************************************************)
(* The adapter methods.  Each gives the outcome of the call, the processes *)
(* it started and the adapter object after the call; p is how the process  *)
(* ends if one is started.                                                 *)
(***************************************************************************)
Result(self, started, call) == [self |-> self, started |-> started, call |-> call]

\* GitHubPlatform._get_subprocess_env
github_subprocess_env(self) ==
  IF self.auth_method = "token" /\ IsSet(self.token)
  THEN [InheritedEnv EXCEPT !.GH_TOKEN = self.token]
  ELSE InheritedEnv

\* GitLabPlatform._get_subprocess_env (pr_agent); the agent revision passes no env
gitlab_subprocess_env(self) ==
  IF pkg = "pr_agent" /\ self.auth_method = "token" /\ IsSet(self.token)
  THEN [InheritedEnv EXCEPT !.GITLAB_TOKEN = self.token]
  ELSE InheritedEnv

\* GitHubPlatform.get_pr_info; the first revision does not remove escape sequences
github_get_pr_info(self, repo, pr_number, p) ==
  LET cmd == <<W("gh"), W("-R"), W(repo), W("pr"), W("view"), W(ToString(pr_number)),
               W("--json"), W("title,body,author,headRefName,baseRefName")>>
      failed == subprocess_run(p, TRUE)
      clean_output == IF pkg = "pr_agent_first" THEN p.stdout ELSE ansi_escape_sub(p.stdout)
  IN Result(self, Run(cmd, github_subprocess_env(self), p),
            IF failed.type # "none" THEN CallRaised(failed) ELSE json_loads(clean_output))

\* the normalisation of GitLabPlatform.get_pr_info with the branches swapped
gitlab_normalize_swapped(mr_data) ==
  CallReturned(JDict(
    [title |-> dict_get(mr_data, "title", JStr("")),
     body |-> dict_get(mr_data, "description", JStr("")),
     author |-> JDict([login |->
                  dict_get(dict_get(mr_data, "author", JDict(NoFields)), "username", JStr(""))]),
     headRefName |-> dict_get(mr_data, "target_branch", JStr("")),
     baseRefName |-> dict_get(mr_data, "source_branch", JStr(""))]))

\* the normalisation of GitLabPlatform.get_pr_info: the dictionary it returns
gitlab_normalize(mr_data) ==
  IF ~HasGet(mr_data) THEN CallRaised(Exc("AttributeError"))
  ELSE LET author == dict_get(mr_data, "author", JDict(NoFields))
       IN IF ~HasGet(author) THEN CallRaised(Exc("AttributeError"))
          ELSE CallReturned(JDict(
                 [title |-> dict_get(mr_data, "title", JStr("")),
                  body |-> dict_get(mr_data, "description", JStr("")),
                  author |-> JDict([login |-> dict_get(author, "username", JStr(""))]),
                  headRefName |-> dict_get(mr_data, "source_branch", JStr("")),
                  baseRefName |-> dict_get(mr_data, "target_branch", JStr(""))]))

\* GitLabPlatform.get_pr_info
gitlab_get_pr_info(self, repo, pr_number, p) ==
  LET cmd == <<W("glab"), W("mr"), W("view"), W(ToString(pr_number)), W("-R"), W(repo),
               W("-F"), W("json")>>
      failed == subprocess_run(p, TRUE)
      mr_data == json_loads(p.stdout)
  IN Result(self, Run(cmd, gitlab_subprocess_env(self), p),
            IF failed.type # "none" THEN CallRaised(failed)
            ELSE IF mr_data.exc.type # "none" THEN mr_data
            ELSE gitlab_normalize(mr_data.value))

\* GitHubPlatform.get_pr_diff
github_get_pr_diff(self, repo, pr_number, p) ==
  LET cmd == <<W("gh"), W("-R"), W(repo), W("pr"), W("diff"), W(ToString(pr_number))>>
      failed == subprocess_run(p, TRUE)
  IN Result(self, Run(cmd, github_subprocess_env(self), p),
            IF failed.type # "none" THEN CallRaised(failed) ELSE CallReturnedText(p.stdout))

\* GitLabPlatform.get_pr_diff
gitlab_get_pr_diff(self, repo, pr_number, p) ==
  LET cmd == <<W("glab"), W("mr"), W("diff"), W(ToString(pr_number)), W("-R"), W(repo)>>
      failed == subprocess_run(p, TRUE)
  IN Result(self, Run(cmd, gitlab_subprocess_env(self), p),
            IF failed.type # "none" THEN CallRaised(failed) ELSE CallReturnedText(p.stdout))

\* the words a shell splits a text into at blanks
RECURSIVE ShellWords(_, _)
ShellWords(text, word) ==
  IF Len(text) = 0 THEN (IF Len(word) = 0 THEN <<>> ELSE <<T(word)>>)
  ELSE IF IsSpace(text[1])
  THEN (IF Len(word) = 0 THEN <<>> ELSE <<T(word)>>) \o ShellWords(Tail(text), <<>>)
  ELSE ShellWords(Tail(text), Append(word, text[1]))

\* post_pr_comment with the command handed to a shell as one line
github_post_pr_comment_shell(self, repo, pr_number, body, p) ==
  LET cmd == <<W("gh"), W("-R"), W(repo), W("pr"), W("comment"), W(ToString(pr_number)),
               W("--body")>> \o ShellWords(body, <<>>)
      failed == subprocess_run(p, TRUE)
  IN Result(self, Run(cmd, github_subprocess_env(self), p),
            IF failed.type # "none" THEN CallRaised(failed) ELSE CallReturned(JNull))

\* GitHubPlatform.post_pr_comment
github_post_pr_comment(self, repo, pr_number, body, p) ==
  LET cmd == <<W("gh"), W("-R"), W(repo), W("pr"), W("comment"), W(ToString(pr_number)),
               W("--body"), T(body)>>
      failed == subprocess_run(p, TRUE)
  IN Result(self, Run(cmd, github_subprocess_env(self), p),
            IF failed.type # "none" THEN CallRaised(failed) ELSE CallReturned(JNull))

\* GitLabPlatform.post_pr_comment
gitlab_post_pr_comment(self, repo, pr_number, body, p) ==
  LET cmd == <<W("glab"), W("mr"), W("note"), W(ToString(pr_number)), W("-R"), W(repo),
               W("--message"), T(body)>>
      failed == subprocess_run(p, TRUE)
  IN Result(self, Run(cmd, gitlab_subprocess_env(self), p),
            IF failed.type # "none" THEN CallRaised(failed) ELSE CallReturned(JNull))

\* GitHubPlatform.setup_auth of the first revision: nothing to set up
github_setup_auth_first(self, p) == Result(self, <<>>, CallReturned(JNull))

\* GitHubPlatform.setup_auth that takes any answer of gh auth status for a session
github_setup_auth_any_status(self, p) ==
  LET gh_token == getenv("GH_TOKEN")
      cmd == <<W("gh"), W("auth"), W("status")>>
  IN IF IsSet(gh_token)
     THEN Result([self EXCEPT !.token = gh_token, !.auth_method = "token"], <<>>,
                 CallReturned(JNull))
     ELSE IF ~p.found
     THEN Result(self, <<>>, CallRaised(Exc("RuntimeError")))
     ELSE Result([self EXCEPT !.auth_method = "cli"], Run(cmd, InheritedEnv, p),
                 CallReturned(JNull))

\* GitHubPlatform.setup_auth (agent and pr_agent revisions)
github_setup_auth(self, p) ==
  LET gh_token == getenv("GH_TOKEN")
      cmd == <<W("gh"), W("auth"), W("status")>>
      failed == subprocess_run(p, FALSE)
  IN IF IsSet(gh_token)
     THEN Result([self EXCEPT !.token = gh_token, !.auth_method = "token"], <<>>,
                 CallReturned(JNull))
     ELSE IF failed.type = "FileNotFoundError"
     THEN Result(self, <<>>, CallRaised(Exc("RuntimeError")))
     ELSE IF p.rc = 0
     THEN Result([self EXCEPT !.auth_method = "cli"], Run(cmd, InheritedEnv, p),
                 CallReturned(JNull))
     ELSE Result(self, Run(cmd, InheritedEnv, p), CallRaised(Exc("RuntimeError")))

\* GitLabPlatform.setup_auth of the first revision: glab auth login with the personal
\* access token, else with the job token of the CI, else nothing
gitlab_setup_auth_first(self, p) ==
  LET gitlab_token == getenv("GITLAB_TOKEN")
      ci_job_token == getenv("CI_JOB_TOKEN")
      ci_server_host == getenv_default("CI_SERVER_HOST", "gitlab.com")
      ci_server_protocol == "https"
      failed == subprocess_run(p, TRUE)
      outcome == IF failed.type # "none" THEN CallRaised(failed) ELSE CallReturned(JNull)
  IN IF IsSet(gitlab_token)
     THEN Result(self,
                 Run(<<W("glab"), W("auth"), W("login"), W("--token"), W(gitlab_token),
                       W("--hostname"), W(ci_server_host)>>, InheritedEnv, p),
                 outcome)
     ELSE IF IsSet(ci_job_token) /\ IsSet(ci_server_host)
     THEN Result(self,
                 Run(<<W("glab"), W("auth"), W("login"), W("--job-token"), W(ci_job_token),
                       W("--hostname"), W(ci_server_host),
                       W("--api-protocol"), W(ci_server_protocol)>>, InheritedEnv, p),
                 outcome)
     ELSE Result(self, <<>>, CallReturned(JNull))

\* GitLabPlatform.setup_auth that logs in at gitlab.com whatever the host is
gitlab_setup_auth_agent_fixed_host(self, p) ==
  LET gitlab_token == getenv("GITLAB_TOKEN")
      cmd == <<W("glab"), W("auth"), W("login"), W("--token"), W(gitlab_token),
               W("--hostname"), W("gitlab.com")>>
      failed == subprocess_run(p, TRUE)
  IN IF IsSet(gitlab_token)
     THEN Result(self, Run(cmd, InheritedEnv, p),
                 IF failed.type # "none" THEN CallRaised(failed) ELSE CallReturned(JNull))
     ELSE Result(self, <<>>, CallReturned(JNull))

\* GitLabPlatform.setup_auth of the agent revision: glab auth login with the token
gitlab_setup_auth_agent(self, p) ==
  LET gitlab_token == getenv("GITLAB_TOKEN")
      ci_server_host == getenv_default("CI_SERVER_HOST", "gitlab.com")
      cmd == <<W("glab"), W("auth"), W("login"), W("--token"), W(gitlab_token),
               W("--hostname"), W(ci_server_host)>>
      failed == subprocess_run(p, TRUE)
  IN IF IsSet(gitlab_token)
     THEN Result(self, Run(cmd, InheritedEnv, p),
                 IF failed.type # "none" THEN CallRaised(failed) ELSE CallReturned(JNull))
     ELSE Result(self, <<>>, CallReturned(JNull))

\* setup_auth of the pr_agent revision that also logs in with the token on the
\* command line
gitlab_setup_auth_pr_agent_login(self, p) ==
  LET gitlab_token == getenv("GITLAB_TOKEN")
      login == <<W("glab"), W("auth"), W("login"), W("--token"), W(gitlab_token)>>
      cmd == <<W("glab"), W("auth"), W("status")>>
      failed == subprocess_run(p, FALSE)
  IN IF IsSet(gitlab_token)
     THEN Result([self EXCEPT !.token = gitlab_token, !.auth_method = "token"],
                 Run(login, InheritedEnv, p), CallReturned(JNull))
     ELSE IF failed.type = "FileNotFoundError"
     THEN Result(self, <<>>, CallRaised(Exc("RuntimeError")))
     ELSE IF p.rc = 0
     THEN Result([self EXCEPT !.auth_method = "cli"], Run(cmd, InheritedEnv, p),
                 CallReturned(JNull))
     ELSE Result(self, Run(cmd, InheritedEnv, p), CallRaised(Exc("RuntimeError")))

\* GitLabPlatform.setup_auth of the pr_agent revision: the token goes to the
\* environment of the later calls, else glab auth status decides
gitlab_setup_auth_pr_agent(self, p) ==
  LET gitlab_token == getenv("GITLAB_TOKEN")
      cmd == <<W("glab"), W("auth"), W("status")>>
      failed == subprocess_run(p, FALSE)
  IN IF IsSet(gitlab_token)
     THEN Result([self EXCEPT !.token = gitlab_token, !.auth_method = "token"], <<>>,
                 CallReturned(JNull))
     ELSE IF failed.type = "FileNotFoundError"
     THEN Result(self, <<>>, CallRaised(Exc("RuntimeError")))
     ELSE IF p.rc = 0
     THEN Result([self EXCEPT !.auth_method = "cli"], Run(cmd, InheritedEnv, p),
                 CallReturned(JNull))
     ELSE Result(self, Run(cmd, InheritedEnv, p), CallRaised(Exc("RuntimeError")))

\* the method of the class of self
get_pr_info(self, repo, pr_number, p) ==
  IF self.cls = "GitHubPlatform" THEN github_get_pr_info(self, repo, pr_number, p)
  ELSE gitlab_get_pr_info(self, repo, pr_number, p)

get_pr_diff(self, repo, pr_number, p) ==
  IF self.cls = "GitHubPlatform" THEN github_get_pr_diff(self, repo, pr_number, p)
  ELSE gitlab_get_pr_diff(self, repo, pr_number, p)

post_pr_comment(self, repo, pr_number, body, p) ==
  IF self.cls = "GitHubPlatform" THEN github_post_pr_comment(self, repo, pr_number, body, p)
  ELSE gitlab_post_pr_comment(self, repo, pr_number, body, p)

setup_auth(self, p) ==
  IF self.cls = "GitHubPlatform"
  THEN (IF pkg = "pr_agent_first" THEN github_setup_auth_first(self, p)
        ELSE github_setup_auth(self, p))
  ELSE IF pkg = "pr_agent_first" THEN gitlab_setup_auth_first(self, p)
  ELSE IF pkg = "agent" THEN gitlab_setup_auth_agent(self, p)
  ELSE gitlab_setup_auth_pr_agent(self, p)

(***************************************************************************)
(* What the command line tools can answer.                                 *)
(***************************************************************************)
Without(d, key) == JDict([k \in DOMAIN d.fields \ {key} |-> d.fields[k]])
WithValue(d, key, v) ==
  JDict([k \in DOMAIN d.fields \cup {key} |-> IF k = key THEN v ELSE d.fields[k]])

\* glab mr view -F json: a merge request with every field, and with an id besides
GitlabPayload(t, d, u, src, tgt) ==
  JDict([title |-> JStr(t), description |-> JStr(d),
         author |-> JDict([username |-> JStr(u)]),
         source_branch |-> JStr(src), target_branch |-> JStr(tgt)])
GitlabKeys == {"title", "description", "author", "source_branch", "target_branch"}
GitlabFull == GitlabPayload("Fix", "Why", "ann", "feature", "main")
ValidGitlabPayloads ==
  { GitlabFull,
    GitlabPayload("Add", "", "bob", "main", "release"),
    WithValue(GitlabFull, "iid", JNum) }

\* gh pr view --json title,body,author,headRefName,baseRefName
GithubPayload(t, d, u, src, tgt) ==
  JDict([title |-> JStr(t), body |-> JStr(d),
         author |-> JDict([login |-> JStr(u)]),
         headRefName |-> JStr(src), baseRefName |-> JStr(tgt)])
GithubKeys == {"title", "body", "author", "headRefName", "baseRefName"}
GithubFull == GithubPayload("Fix", "Why", "ann", "feature", "main")
ValidGithubPayloads == {GithubFull, GithubPayload("Add", "", "bob", "main", "release")}

\* a payload with optional data absent: a key missing, the description or the
\* author null, an author without a name
Sparse(full, keys, bodykey, userkey) ==
  {Without(full, k) : k \in keys}
    \cup {WithValue(full, k, JNull) : k \in {bodykey, "author"}}
    \cup {WithValue(full, "author", JDict(NoFields)),
          WithValue(full, "author", JDict([x \in {userkey} |-> JNull])),
          JDict(NoFields)}

\* JSON that is no object
NotObjects == {JList, JNull, JStr("text")}

DocsOf(cls) ==
  IF cls = "GitHubPlatform"
  THEN ValidGithubPayloads \cup Sparse(GithubFull, GithubKeys, "body", "login") \cup NotObjects
  ELSE ValidGitlabPayloads \cup Sparse(GitlabFull, GitlabKeys, "description", "username") \cup NotObjects

\* the standard output of a view command that exits 0
ViewOutputs(cls) ==
  {<<JsonChunk(d)>> : d \in DocsOf(cls)}
    \cup { <<>>, <<TextChunk>>,
           <<AnsiChunk, JsonChunk(CHOOSE d \in DocsOf(cls) : d.kind = "list")>>,
           <<JsonChunk(JNum), JsonChunk(JNum)>> }

\* the standard output of a diff command that exits 0
DiffOutputs == {<<>>, <<AnsiChunk, TextChunk>>}

Exited(rc, out, err) == [found |-> TRUE, rc |-> rc, stdout |-> out, stderr |-> err]
\* the executable is not installed: no process
NotFound == [found |-> FALSE, rc |-> 0, stdout |-> NoOutput, stderr |-> ""]

\* a process that fails: its exit code, what it wrote
Failures ==
  { Exited(1, NoOutput, "HTTP 404"), Exited(1, <<TextChunk>>, ""),
    Exited(2, <<TextChunk>>, "HTTP 404") }

ViewResults(cls) ==
  {Exited(0, out, "") : out \in ViewOutputs(cls)}
    \cup {Exited(0, <<JsonChunk(JList)>>, "warning")}
    \cup Failures \cup {NotFound}
DiffResults == {Exited(0, out, "") : out \in DiffOutputs} \cup Failures \cup {NotFound}
PlainResults == {Exited(0, NoOutput, "")} \cup Failures \cup {NotFound}

\* the arguments of the calls
ProviderNames ==
  { KeyGithub, KeyGitlab,
    <<"G", "i", "t", "H", "u", "b">>, <<"G", "I", "T", "H", "U", "B">>,
    <<"G", "i", "t", "L", "a", "b">>, <<"G", "I", "T", "L", "A", "B">>,
    <<"g", "i", "T", "l", "a", "B">>,
    <<>>, <<"g", "i", "t", "h", "u", "b", " ">>,
    <<"b", "i", "t", "b", "u", "c", "k", "e", "t">>,
    <<"G", "i", "t", "H", "u", "b">> \o WordPlatform }
Repos == {"owner/repo"}
PrNumbers == {7}
Bodies == {<<"o", "k">>, <<"a", " ", "b">>, <<"\"", "$", "(", ";", "\n", "'", " ">>}

(***************************************************************************)
(* The adapters as a state machine: the factory constructs adapter         *)
(* objects, and any method of any object may be called next.               *)
(***************************************************************************)
NoName == <<>>
NoBody == <<>>
NoCall ==
  [op |-> "none", adapter |-> 0, provider |-> <<>>, name |-> NoName, body |-> NoBody,
   call |-> CallReturned(JNull), started |-> <<>>]
Called(op, a, r) ==
  [op |-> op, adapter |-> a, provider |-> <<>>, name |-> NoName, body |-> NoBody,
   call |-> r.call, started |-> r.started]

\* the revisions of the package in the repository: src/pr_agent, src/agent and
\* src/src/pr_agent
Revisions == {"pr_agent_first", "agent", "pr_agent"}

\* os.environ when the program starts
Environ(gh, gitlab, job, host) ==
  [GH_TOKEN |-> gh, GITLAB_TOKEN |-> gitlab, CI_JOB_TOKEN |-> job, CI_SERVER_HOST |-> host]
Environments ==
  { Environ(Unset, Unset, Unset, Unset),
    Environ("ghp_1", Unset, Unset, Unset),
    Environ(Unset, "glpat-1", Unset, Unset),
    Environ(Unset, "glpat-1", Unset, "gitlab.example.com"),
    Environ("ghp_1", "glpat-1", Unset, Unset),
    Environ(Unset, Unset, "job-1", Unset),
    Environ(Unset, Unset, "job-1", "gitlab.example.com"),
    Environ(Unset, "glpat-1", "job-1", "gitlab.example.com") }

\* tools._platform_cache when the module is loaded
EmptyCache == [k \in {} |-> 0]

NoRun ==
  [pc |-> "none", provider |-> <<>>, platform |-> 0, repo |-> "", pr_number |-> 0,
   pr_info |-> JNull, review_text |-> PyNone, body |-> PyNone, exit |-> -1]
NoTool ==
  [count |-> 0, name |-> "none", platform |-> PyNone, repo |-> "", pr_number |-> 0,
   raised |-> NoExc, status |-> "none", error |-> [template |-> "none", exc |-> NoExc],
   data |-> JNull, diff |-> NoOutput, started |-> <<>>]

\* no run of the workflow and no tool call has begun
\* a thread that has not called _get_or_create_platform
NoThread == [pc |-> "idle", platform_lower |-> <<>>, plat |-> 0, returned |-> 0]
NoThreads == [t \in 1..MaxThreads |-> NoThread]

RunIdle ==
  /\ run = NoRun
  /\ trace = <<>>
  /\ cache = EmptyCache
  /\ tool = NoTool
  /\ threads = NoThreads

\* nothing has run in the adapters
AdaptersIdle ==
  /\ pkg = "agent"
  /\ env = [GH_TOKEN |-> Unset, GITLAB_TOKEN |-> Unset, CI_JOB_TOKEN |-> Unset,
            CI_SERVER_HOST |-> Unset]
  /\ adapters = <<>>
  /\ last = NoCall
  /\ RunIdle

Init ==
  /\ san_in = PyNone
  /\ san_out = Pending
  /\ san_again = Pending
  /\ pkg \in Revisions
  /\ env \in Environments
  /\ adapters = <<>>
  /\ last = NoCall
  /\ RunIdle

\* get_platform(provider)
GetPlatform(provider) ==
  /\ Len(adapters) < MaxAdapters
  /\ LET r == get_platform(provider)
         made == r.exc.type = "none"
     IN /\ adapters' = IF made THEN Append(adapters, r.obj) ELSE adapters
        /\ last' = [op |-> "get_platform",
                    adapter |-> IF made THEN Len(adapters) + 1 ELSE 0,
                    provider |-> provider, name |-> NoName, body |-> NoBody,
                    call |-> IF made THEN CallReturned(JNull) ELSE CallRaised(r.exc),
                    started |-> <<>>]
  /\ UNCHANGED <<pkg, env>>
  /\ UNCHANGED sanVars
  /\ UNCHANGED runVars

\* adapters[a].get_platform_name()
GetPlatformName(a) ==
  /\ last' = [op |-> "get_platform_name", adapter |-> a, provider |-> <<>>,
              name |-> get_platform_name(adapters[a]), body |-> NoBody,
              call |-> CallReturned(JNull), started |-> <<>>]
  /\ UNCHANGED <<pkg, env, adapters>>
  /\ UNCHANGED sanVars
  /\ UNCHANGED runVars

\* adapters[a].setup_auth()
SetupAuth(a, p) ==
  /\ LET r == setup_auth(adapters[a], p)
     IN /\ adapters' = [adapters EXCEPT ![a] = r.self]
        /\ last' = Called("setup_auth", a, r)
  /\ UNCHANGED <<pkg, env>>
  /\ UNCHANGED sanVars
  /\ UNCHANGED runVars

\* adapters[a].get_pr_info(repo, pr_number)
GetPrInfo(a, repo, pr_number, p) ==
  /\ last' = Called("get_pr_info", a, get_pr_info(adapters[a], repo, pr_number, p))
  /\ UNCHANGED <<pkg, env, adapters>>
  /\ UNCHANGED sanVars
  /\ UNCHANGED runVars

\* adapters[a].get_pr_diff(repo, pr_number)
GetPrDiff(a, repo, pr_number, p) ==
  /\ last' = Called("get_pr_diff", a, get_pr_diff(adapters[a], repo, pr_number, p))
  /\ UNCHANGED <<pkg, env, adapters>>
  /\ UNCHANGED sanVars
  /\ UNCHANGED runVars

\* adapters[a].post_pr_comment(repo, pr_number, body)
PostPrComment(a, repo, pr_number, body, p) ==
  /\ last' = [Called("post_pr_comment", a,
                     post_pr_comment(adapters[a], repo, pr_number, body, p))
                EXCEPT !.body = body]
  /\ UNCHANGED <<pkg, env, adapters>>
  /\ UNCHANGED sanVars
  /\ UNCHANGED runVars

Next ==
  \/ \E provider \in ProviderNames : GetPlatform(provider)
  \/ \E a \in DOMAIN adapters : GetPlatformName(a)
  \/ \E a \in DOMAIN adapters : \E p \in PlainResults : SetupAuth(a, p)
  \/ \E a \in DOMAIN adapters : \E repo \in Repos : \E n \in PrNumbers :
       \E p \in ViewResults(adapters[a].cls) : GetPrInfo(a, repo, n, p)
  \/ \E a \in DOMAIN adapters : \E repo \in Repos : \E n \in PrNumbers :
       \E p \in DiffResults : GetPrDiff(a, repo, n, p)
  \/ \E a \in DOMAIN adapters : \E repo \in Repos : \E n \in PrNumbers :
       \E body \in Bodies : \E p \in PlainResults : PostPrComment(a, repo, n, body, p)

Spec == Init /\ [][Next]_vars

(***************************************************************************)
(* The tool functions of src/src/pr_agent/tools.py, which the LLM calls.   *)
(***************************************************************************)
\* an entry of the trace: who called (the workflow or a tool function), the
\* operation, the adapter object it was called on and whether it returned
Event(by, op, a, ok) == [by |-> by, op |-> op, adapter |-> a, ok |-> ok]

\* except ValueError: json.JSONDecodeError is a subclass of ValueError
IsValueError(e) == e.type \in {"ValueError", "JSONDecodeError"}
\* except RuntimeError
IsRuntimeError(e) == e.type = "RuntimeError"

\* str(e): the message of CalledProcessError names the command and the exit status,
\* not what the process wrote
str_exception(e) == [e EXCEPT !.stdout = NoOutput, !.stderr = ""]

\* _get_or_create_platform that keys the cache by the name as it was passed
get_or_create_platform_keyed_as_passed(platform, pa) ==
  LET made == get_platform(platform.str)
      a == Len(adapters) + 1
      auth == setup_auth(made.obj, pa)
  IN IF ~isinstance_str(platform)
     THEN [exc |-> Exc("AttributeError"), plat |-> 0, adapters |-> adapters,
           cache |-> cache, events |-> <<>>, started |-> <<>>]
     ELSE IF platform.str \in DOMAIN cache
     THEN [exc |-> NoExc, plat |-> cache[platform.str], adapters |-> adapters,
           cache |-> cache, events |-> <<>>, started |-> <<>>]
     ELSE IF made.exc.type # "none"
     THEN [exc |-> made.exc, plat |-> 0, adapters |-> adapters, cache |-> cache,
           events |-> <<Event("tools", "get_platform", 0, FALSE)>>, started |-> <<>>]
     ELSE IF auth.call.exc.type # "none"
     THEN [exc |-> auth.call.exc, plat |-> 0, adapters |-> Append(adapters, auth.self),
           cache |-> cache,
           events |-> <<Event("tools", "get_platform", a, TRUE),
                        Event("tools", "setup_auth", a, FALSE)>>,
           started |-> auth.started]
     ELSE [exc |-> NoExc, plat |-> a, adapters |-> Append(adapters, auth.self),
           cache |-> cache @@ (platform.str :> a),
           events |-> <<Event("tools", "get_platform", a, TRUE),
                        Event("tools", "setup_auth", a, TRUE)>>,
           started |-> auth.started]

\* _get_or_create_platform that caches the adapter whether or not setup_auth raised
get_or_create_platform_unchecked(platform, pa) ==
  LET platform_lower == Lower(platform.str)
      made == get_platform(platform_lower)
      a == Len(adapters) + 1
      auth == setup_auth(made.obj, pa)
  IN IF ~isinstance_str(platform)
     THEN [exc |-> Exc("AttributeError"), plat |-> 0, adapters |-> adapters,
           cache |-> cache, events |-> <<>>, started |-> <<>>]
     ELSE IF platform_lower \in DOMAIN cache
     THEN [exc |-> NoExc, plat |-> cache[platform_lower], adapters |-> adapters,
           cache |-> cache, events |-> <<>>, started |-> <<>>]
     ELSE IF made.exc.type # "none"
     THEN [exc |-> made.exc, plat |-> 0, adapters |-> adapters, cache |-> cache,
           events |-> <<Event("tools", "get_platform", 0, FALSE)>>, started |-> <<>>]
     ELSE [exc |-> NoExc, plat |-> a, adapters |-> Append(adapters, auth.self),
           cache |-> cache @@ (platform_lower :> a),
           events |-> <<Event("tools", "get_platform", a, TRUE),
                        Event("tools", "setup_auth", a, auth.call.exc.type = "none")>>,
           started |-> auth.started]

\* _get_or_create_platform(platform); pa is how the process of setup_auth ends
get_or_create_platform(platform, pa) ==
  LET platform_lower == Lower(platform.str)
      made == get_platform(platform_lower)
      a == Len(adapters) + 1
      auth == setup_auth(made.obj, pa)
  IN IF ~isinstance_str(platform)
     THEN [exc |-> Exc("AttributeError"), plat |-> 0, adapters |-> adapters,
           cache |-> cache, events |-> <<>>, started |-> <<>>]
     ELSE IF platform_lower \in DOMAIN cache
     THEN [exc |-> NoExc, plat |-> cache[platform_lower], adapters |-> adapters,
           cache |-> cache, events |-> <<>>, started |-> <<>>]
     ELSE IF made.exc.type # "none"
     THEN [exc |-> made.exc, plat |-> 0, adapters |-> adapters, cache |-> cache,
           events |-> <<Event("tools", "get_platform", 0, FALSE)>>, started |-> <<>>]
     ELSE IF auth.call.exc.type # "none"
     THEN [exc |-> auth.call.exc, plat |-> 0, adapters |-> Append(adapters, auth.self),
           cache |-> cache,
           events |-> <<Event("tools", "get_platform", a, TRUE),
                        Event("tools", "setup_auth", a, FALSE)>>,
           started |-> auth.started]
     ELSE [exc |-> NoExc, plat |-> a, adapters |-> Append(adapters, auth.self),
           cache |-> cache @@ (platform_lower :> a),
           events |-> <<Event("tools", "get_platform", a, TRUE),
                        Event("tools", "setup_auth", a, TRUE)>>,
           started |-> auth.started]

\* the dictionary a tool function returns
ToolResult(name, platform, repo, pr_number, status, error, data, diff) ==
  [name |-> name, platform |-> platform, repo |-> repo, pr_number |-> pr_number,
   raised |-> NoExc, status |-> status, error |-> error, data |-> data, diff |-> diff]

\* the except clauses without the last one, except Exception
tool_except_no_catch_all(name, e, platform, repo, pr_number) ==
  IF IsValueError(e)
  THEN ToolResult(name, platform, repo, pr_number, "error",
                  [template |-> "Invalid platform", exc |-> NoExc], JNull, NoOutput)
  ELSE IF IsRuntimeError(e)
  THEN ToolResult(name, platform, repo, pr_number, "error",
                  [template |-> "str(e)", exc |-> str_exception(e)], JNull, NoOutput)
  ELSE [ToolResult(name, PyNone, "", 0, "none", [template |-> "none", exc |-> NoExc],
                   JNull, NoOutput) EXCEPT !.raised = e]

\* the except clauses of get_pr_info and get_pr_diff
tool_except(name, e, platform, repo, pr_number) ==
  IF IsValueError(e)
  THEN ToolResult(name, platform, repo, pr_number, "error",
                  [template |-> "Invalid platform", exc |-> NoExc], JNull, NoOutput)
  ELSE ToolResult(name, platform, repo, pr_number, "error",
                  [template |-> "str(e)", exc |-> str_exception(e)], JNull, NoOutput)

\* the body of a tool function: the adapter, the fetch, the dictionary
ToolCall(name, platform, repo, pr_number, pa, pf) ==
  LET got == get_or_create_platform(platform, pa)
      self == got.adapters[got.plat]
      fetched == IF name = "get_pr_info" THEN get_pr_info(self, repo, pr_number, pf)
                 ELSE get_pr_diff(self, repo, pr_number, pf)
      \* {"status": ..., **pr_data}: pr_data has to be a mapping
      exc == IF got.exc.type # "none" THEN got.exc
             ELSE IF fetched.call.exc.type # "none" THEN fetched.call.exc
             ELSE IF name = "get_pr_info" /\ fetched.call.value.kind # "dict"
             THEN Exc("TypeError")
             ELSE NoExc
  IN [result |-> IF exc.type # "none" THEN tool_except(name, exc, platform, repo, pr_number)
                 ELSE ToolResult(name, platform, repo, pr_number, "success",
                                 [template |-> "none", exc |-> NoExc],
                                 fetched.call.value, fetched.call.text),
      adapters |-> got.adapters,
      cache |-> got.cache,
      events |-> IF got.exc.type # "none" THEN got.events
                 ELSE Append(got.events,
                             Event("tools", name, got.plat, fetched.call.exc.type = "none")),
      started |-> IF got.exc.type # "none" THEN got.started
                  ELSE got.started \o fetched.started]

\* tools.get_pr_info(platform, repo, pr_number)
tool_get_pr_info(platform, repo, pr_number, pa, pf) ==
  ToolCall("get_pr_info", platform, repo, pr_number, pa, pf)

\* tools.get_pr_diff(platform, repo, pr_number)
tool_get_pr_diff(platform, repo, pr_number, pa, pf) ==
  ToolCall("get_pr_diff", platform, repo, pr_number, pa, pf)

\* the platform argument the LLM passes: any value
ToolPlatforms ==
  { PyStr(KeyGithub), PyStr(<<"G", "i", "t", "H", "u", "b">>), PyStr(KeyGitlab),
    PyStr(<<"b", "i", "t", "b", "u", "c", "k", "e", "t">>), PyInt(5) }

\* how the processes behind a tool call end
ToolAuthResults == {Exited(0, NoOutput, ""), Exited(1, NoOutput, "HTTP 404"), NotFound}
ToolViewResults(platform) ==
  LET full == IF isinstance_str(platform) /\ Lower(platform.str) = KeyGithub
              THEN GithubFull ELSE GitlabFull
  IN { Exited(0, <<JsonChunk(full)>>, ""), Exited(0, <<JsonChunk(JList)>>, ""),
       Exited(0, <<TextChunk>>, ""), Exited(1, <<TextChunk>>, "HTTP 404"), NotFound }
ToolDiffResults == {Exited(0, <<TextChunk>>, ""), Exited(1, NoOutput, "HTTP 404")}

\* the state after a tool call
ToolCalled(r) ==
  /\ adapters' = r.adapters
  /\ cache' = r.cache
  /\ trace' = trace \o r.events
  /\ tool' = [count |-> tool.count + 1, name |-> r.result.name,
              platform |-> r.result.platform, repo |-> r.result.repo,
              pr_number |-> r.result.pr_number, raised |-> r.result.raised,
              status |-> r.result.status, error |-> r.result.error,
              data |-> r.result.data, diff |-> r.result.diff, started |-> r.started]

\* a call of tools.get_pr_info
ToolGetPrInfo(platform, repo, pr_number, pa, pf) ==
  /\ tool.count < MaxToolCalls
  /\ ToolCalled(tool_get_pr_info(platform, repo, pr_number, pa, pf))
  /\ UNCHANGED <<pkg, env, last, run, threads>>
  /\ UNCHANGED sanVars

\* a call of tools.get_pr_diff
ToolGetPrDiff(platform, repo, pr_number, pa, pf) ==
  /\ tool.count < MaxToolCalls
  /\ ToolCalled(tool_get_pr_diff(platform, repo, pr_number, pa, pf))
  /\ UNCHANGED <<pkg, env, last, run, threads>>
  /\ UNCHANGED sanVars

\* the tool functions called from the ADK dev UI: no workflow runs
ToolInit ==
  /\ san_in = PyNone
  /\ san_out = Pending
  /\ san_again = Pending
  /\ pkg = "pr_agent"
  /\ env \in Environments
  /\ adapters = <<>>
  /\ last = NoCall
  /\ RunIdle

ToolNext ==
  \/ \E platform \in ToolPlatforms : \E repo \in Repos : \E n \in PrNumbers :
       \E pa \in ToolAuthResults : \E pf \in ToolViewResults(platform) :
         ToolGetPrInfo(platform, repo, n, pa, pf)
  \/ \E platform \in ToolPlatforms : \E repo \in Repos : \E n \in PrNumbers :
       \E pa \in ToolAuthResults : \E pf \in ToolDiffResults :
         ToolGetPrDiff(platform, repo, n, pa, pf)

ToolSpec == ToolInit /\ [][ToolNext]_vars

(***************************************************************************)
(* _get_or_create_platform called from several threads: each statement of  *)
(* lines 31-36 is a step of its own, and the steps of the threads          *)
(* interleave.  Nothing in tools.py takes a lock.                          *)
(***************************************************************************)
Threads == 1..MaxThreads

\* the platform names the concurrent calls are made with
ThreadPlatforms == {KeyGithub, <<"G", "i", "t", "H", "u", "b">>, KeyGitlab}

\* _platform_cache[platform_lower] = plat
CacheStore(key, a) ==
  [k \in DOMAIN cache \cup {key} |-> IF k = key THEN a ELSE cache[k]]

\* the other variables of a step of a thread
ThreadStepOnly ==
  /\ UNCHANGED <<pkg, env, last, run, tool>>
  /\ UNCHANGED sanVars

\* line 31: platform_lower = platform.lower()
ThreadCall(t, platform) ==
  /\ threads[t].pc = "idle"
  /\ threads' = [threads EXCEPT ![t].pc = "check", ![t].platform_lower = Lower(platform)]
  /\ UNCHANGED <<adapters, trace, cache>>
  /\ ThreadStepOnly

\* line 32: if platform_lower not in _platform_cache
ThreadCheck(t) ==
  /\ threads[t].pc = "check"
  /\ threads' = [threads EXCEPT ![t].pc = IF threads[t].platform_lower \in DOMAIN cache
                                         THEN "return" ELSE "create"]
  /\ UNCHANGED <<adapters, trace, cache>>
  /\ ThreadStepOnly

\* line 33: plat = get_platform(platform_lower)
ThreadCreate(t) ==
  /\ threads[t].pc = "create"
  /\ LET made == get_platform(threads[t].platform_lower)
         ok == made.exc.type = "none"
         a == Len(adapters) + 1
     IN /\ adapters' = IF ok THEN Append(adapters, made.obj) ELSE adapters
        /\ trace' = Append(trace, Event("tools", "get_platform", IF ok THEN a ELSE 0, ok))
        /\ threads' = [threads EXCEPT ![t].pc = IF ok THEN "auth" ELSE "raised",
                                      ![t].plat = IF ok THEN a ELSE 0]
  /\ UNCHANGED cache
  /\ ThreadStepOnly

\* line 34: plat.setup_auth(); pa is how its process ends
ThreadAuth(t, pa) ==
  /\ threads[t].pc = "auth"
  /\ LET auth == setup_auth(adapters[threads[t].plat], pa)
         ok == auth.call.exc.type = "none"
     IN /\ adapters' = [adapters EXCEPT ![threads[t].plat] = auth.self]
        /\ trace' = Append(trace, Event("tools", "setup_auth", threads[t].plat, ok))
        /\ threads' = [threads EXCEPT ![t].pc = IF ok THEN "store" ELSE "raised"]
  /\ UNCHANGED cache
  /\ ThreadStepOnly

\* line 35: _platform_cache[platform_lower] = plat
ThreadStore(t) ==
  /\ threads[t].pc = "store"
  /\ cache' = CacheStore(threads[t].platform_lower, threads[t].plat)
  /\ threads' = [threads EXCEPT ![t].pc = "return"]
  /\ UNCHANGED <<adapters, trace>>
  /\ ThreadStepOnly

\* line 36: return _platform_cache[platform_lower]
ThreadReturn(t) ==
  /\ threads[t].pc = "return"
  /\ threads' = [threads EXCEPT ![t].pc = "done",
                                ![t].returned = cache[threads[t].platform_lower]]
  /\ UNCHANGED <<adapters, trace, cache>>
  /\ ThreadStepOnly

ThreadInit ==
  /\ san_in = PyNone
  /\ san_out = Pending
  /\ san_again = Pending
  /\ pkg = "pr_agent"
  /\ env \in Environments
  /\ adapters = <<>>
  /\ last = NoCall
  /\ RunIdle

ThreadNext ==
  \E t \in Threads :
    \/ \E platform \in ThreadPlatforms : ThreadCall(t, platform)
    \/ ThreadCheck(t)
    \/ ThreadCreate(t)
    \/ \E pa \in ToolAuthResults : ThreadAuth(t, pa)
    \/ ThreadStore(t)
    \/ ThreadReturn(t)

ThreadSpec == ThreadInit /\ [][ThreadNext]_vars

(***************************************************************************)
(* One run of the review: main() of src/agent/main.py and workflow() of    *)
(* src/src/pr_agent/workflow.py, a step at a time.                         *)
(***************************************************************************)
\* the steps of main() in program order
MainStepsAuthAfterFetch ==
  <<"get_platform", "validate", "cloud", "ids", "get_pr_info", "get_pr_diff",
    "setup_auth", "llm", "sanitize", "post">>

MainSteps ==
  <<"get_platform", "validate", "cloud", "setup_auth", "ids", "get_pr_info",
    "get_pr_diff", "llm", "sanitize", "post">>

\* the steps of workflow() in program order: the LLM fetches through the tools
WorkflowSteps ==
  <<"get_platform", "validate", "cloud", "setup_auth", "ids", "llm", "sanitize", "post">>

Steps == IF pkg = "agent" THEN MainSteps ELSE WorkflowSteps

\* the step that follows pc, "done" after the last
After(pc) ==
  LET i == CHOOSE k \in 1..Len(Steps) : Steps[k] = pc
  IN IF i = Len(Steps) THEN "done" ELSE Steps[i + 1]

\* sys.exit(1), also from the except clauses of main() and workflow()
Exit1 == [run EXCEPT !.pc = "exit", !.exit = 1, !.pr_info = JNull]

\* int(s) for the values PR_NUMBER takes
IntLiterals == [s \in {"7"} |-> 7]

\* validate_environment_variables of GitLab that does not ask for the token
gitlab_validate_environment_variables_no_token ==
  (IF ~IsSet(getenv("REPOSITORY")) THEN <<"REPOSITORY">> ELSE <<>>)
    \o (IF ~IsSet(getenv("PR_NUMBER")) THEN <<"PR_NUMBER">> ELSE <<>>)

\* GitLabPlatform.validate_environment_variables of src/agent
gitlab_validate_environment_variables ==
  (IF ~IsSet(getenv("REPOSITORY")) THEN <<"REPOSITORY">> ELSE <<>>)
    \o (IF ~IsSet(getenv("PR_NUMBER")) THEN <<"PR_NUMBER">> ELSE <<>>)
    \o (IF ~IsSet(getenv("GITLAB_TOKEN")) THEN <<"GITLAB_TOKEN">> ELSE <<>>)

\* GitHubPlatform.validate_environment_variables of src/agent
github_validate_environment_variables == <<>>

\* ValidateEnvironmentVariables that does not ask the platform
ValidateEnvironmentVariablesGeneric(self) ==
  (IF ~IsSet(getenv("GOOGLE_CLOUD_PROJECT")) THEN <<"GOOGLE_CLOUD_PROJECT">> ELSE <<>>)
    \o (IF ~IsSet(getenv("GOOGLE_CLOUD_LOCATION")) THEN <<"GOOGLE_CLOUD_LOCATION">> ELSE <<>>)
    \o (IF ~IsSet(getenv("REPOSITORY"))
        THEN <<"REPOSITORY (or platform-specific equivalent)">> ELSE <<>>)
    \o (IF ~IsSet(getenv("PR_NUMBER"))
        THEN <<"PR_NUMBER (or platform-specific equivalent)">> ELSE <<>>)

\* ValidateEnvironmentVariables(platform): missing_vars
ValidateEnvironmentVariables(self) ==
  (IF ~IsSet(getenv("GOOGLE_CLOUD_PROJECT")) THEN <<"GOOGLE_CLOUD_PROJECT">> ELSE <<>>)
    \o (IF ~IsSet(getenv("GOOGLE_CLOUD_LOCATION")) THEN <<"GOOGLE_CLOUD_LOCATION">> ELSE <<>>)
    \o (IF ~IsSet(getenv("REPOSITORY"))
        THEN <<"REPOSITORY (or platform-specific equivalent)">> ELSE <<>>)
    \o (IF ~IsSet(getenv("PR_NUMBER"))
        THEN <<"PR_NUMBER (or platform-specific equivalent)">> ELSE <<>>)
    \o (IF pkg # "agent" THEN <<>>
        ELSE IF self.cls = "GitHubPlatform" THEN github_validate_environment_variables
        ELSE gitlab_validate_environment_variables)

\* the review text posted as it came from the LLM
review_body_raw(review_text) == Return(review_text)

\* review_text = strip_markdown_wrapper(review_text), with the function the revision
\* imports
review_body(review_text) ==
  IF pkg = "agent" THEN strip_markdown_wrapper_agent(review_text)
  ELSE strip_markdown_wrapper(review_text)

\* the prompt of main() reads pr_info.get(...) and pr_info.get('author', {}).get(...)
PromptRaises(pr_info) ==
  \/ ~HasGet(pr_info)
  \/ ~HasGet(dict_get(pr_info, "author", JDict(NoFields)))

\* what run_review_agent returns: a part.text that is not empty, or None
LlmTexts ==
  { PyNone, PyStr(<<"o", "k">>), PyStr(<<" ", "o", "k", "\n">>),
    PyStr(Fence \o NL \o <<"o", "k">> \o NL \o Fence),
    PyStr(Fence \o WordMarkdown \o NL \o Fence \o NL \o <<"x">> \o NL \o Fence \o NL \o Fence),
    PyStr(<<" ", "\n">>),
    PyStr(Fence \o NL \o NL \o Fence),
    PyStr(Fence \o NL \o <<"o", "k">>) }

\* os.environ of a run
RunEnviron(gh, gitlab, repo, number, project, location) ==
  [GH_TOKEN |-> gh, GITLAB_TOKEN |-> gitlab, CI_JOB_TOKEN |-> Unset,
   CI_SERVER_HOST |-> Unset, REPOSITORY |-> repo, PR_NUMBER |-> number,
   GOOGLE_CLOUD_PROJECT |-> project, GOOGLE_CLOUD_LOCATION |-> location]
RunEnvironments ==
  { RunEnviron("ghp_1", "glpat-1", "owner/repo", "7", "proj", "europe-west2"),
    RunEnviron(Unset, Unset, "owner/repo", "7", "proj", "europe-west2"),
    RunEnviron(Unset, "glpat-1", "owner/repo", "seven", "proj", "europe-west2"),
    RunEnviron("ghp_1", "glpat-1", Unset, "7", "proj", "europe-west2"),
    RunEnviron("ghp_1", "glpat-1", "owner/repo", Unset, "proj", ""),
    RunEnviron("ghp_1", Unset, "owner/repo", "7", Unset, Unset) }

\* platform.get_platform_name(), called n times for the log, the span or the URL
NameAsked(a, n) == [i \in 1..n |-> Event("workflow", "get_platform_name", a, TRUE)]

\* the calls of get_platform_name after the comment was posted: main() of src/agent
\* compares the name with 'github' and, if that fails, with 'gitlab'; workflow() has
\* no such lines
NamesAskedForUrl(self) ==
  IF pkg # "agent" THEN 0
  ELSE IF get_platform_name(self) = KeyGithub THEN 1
  ELSE 2

\* --provider: argparse takes one of the choices
ProviderChoices == {KeyGithub, KeyGitlab}

RunInit ==
  /\ san_in = PyNone
  /\ san_out = Pending
  /\ san_again = Pending
  /\ pkg \in {"agent", "pr_agent"}
  /\ env \in RunEnvironments
  /\ adapters = <<>>
  /\ last = NoCall
  /\ \E provider \in ProviderChoices :
       run = [NoRun EXCEPT !.pc = "get_platform", !.provider = provider]
  /\ trace = <<>>
  /\ cache = EmptyCache
  /\ tool = NoTool
  /\ threads = NoThreads

\* platform = get_platform(args.provider), sys.exit(1) on ValueError
RunGetPlatform ==
  /\ run.pc = "get_platform"
  /\ LET r == get_platform(run.provider)
         made == r.exc.type = "none"
         a == Len(adapters) + 1
     IN /\ adapters' = IF made THEN Append(adapters, r.obj) ELSE adapters
        /\ trace' = Append(trace, Event("workflow", "get_platform", IF made THEN a ELSE 0, made))
                       \o NameAsked(a, IF made THEN 1 ELSE 0)
        /\ run' = IF made THEN [run EXCEPT !.pc = After("get_platform"), !.platform = a]
                  ELSE Exit1
  /\ UNCHANGED <<pkg, env, last, cache, tool, threads>>
  /\ UNCHANGED sanVars

\* ValidateEnvironmentVariables(platform): sys.exit(1) if a variable is missing
RunValidate ==
  /\ run.pc = "validate"
  /\ run' = IF ValidateEnvironmentVariables(adapters[run.platform]) # <<>> THEN Exit1
            ELSE [run EXCEPT !.pc = After("validate")]
  /\ UNCHANGED <<pkg, env, adapters, last, trace, cache, tool, threads>>
  /\ UNCHANGED sanVars

\* setup_google_cloud_auth() and setup_tracing(): they return, or one of them raises
RunCloud(raises) ==
  /\ run.pc = "cloud"
  /\ run' = IF raises THEN Exit1 ELSE [run EXCEPT !.pc = After("cloud")]
  /\ UNCHANGED <<pkg, env, adapters, last, trace, cache, tool, threads>>
  /\ UNCHANGED sanVars

\* platform.setup_auth()
RunSetupAuth(p) ==
  /\ run.pc = "setup_auth"
  /\ LET r == setup_auth(adapters[run.platform], p)
         ok == r.call.exc.type = "none"
     IN /\ adapters' = [adapters EXCEPT ![run.platform] = r.self]
        /\ last' = Called("setup_auth", run.platform, r)
        /\ trace' = Append(trace, Event("workflow", "setup_auth", run.platform, ok))
        /\ run' = IF ok THEN [run EXCEPT !.pc = After("setup_auth")] ELSE Exit1
  /\ UNCHANGED <<pkg, env, cache, tool, threads>>
  /\ UNCHANGED sanVars

\* repo = get_repository_identifier(); pr_number = get_pr_number(); the span is
\* opened and given the name of the platform
RunIds ==
  /\ run.pc = "ids"
  /\ LET pr_number_str == getenv("PR_NUMBER")
         ok == IsSet(pr_number_str) /\ pr_number_str \in DOMAIN IntLiterals
     IN /\ run' = IF ~ok THEN Exit1
                  ELSE [run EXCEPT !.pc = After("ids"), !.repo = getenv("REPOSITORY"),
                                   !.pr_number = IntLiterals[pr_number_str]]
        /\ trace' = trace \o NameAsked(run.platform, IF ok THEN 1 ELSE 0)
  /\ UNCHANGED <<pkg, env, adapters, last, cache, tool, threads>>
  /\ UNCHANGED sanVars

\* pr_info = platform.get_pr_info(repo, pr_number)
RunGetPrInfo(p) ==
  /\ run.pc = "get_pr_info"
  /\ LET r == get_pr_info(adapters[run.platform], run.repo, run.pr_number, p)
         ok == r.call.exc.type = "none"
     IN /\ last' = Called("get_pr_info", run.platform, r)
        /\ trace' = Append(trace, Event("workflow", "get_pr_info", run.platform, ok))
        /\ run' = IF ok THEN [run EXCEPT !.pc = After("get_pr_info"), !.pr_info = r.call.value]
                  ELSE Exit1
  /\ UNCHANGED <<pkg, env, adapters, cache, tool, threads>>
  /\ UNCHANGED sanVars

\* pr_diff = platform.get_pr_diff(repo, pr_number)
RunGetPrDiff(p) ==
  /\ run.pc = "get_pr_diff"
  /\ LET r == get_pr_diff(adapters[run.platform], run.repo, run.pr_number, p)
         ok == r.call.exc.type = "none"
     IN /\ last' = Called("get_pr_diff", run.platform, r)
        /\ trace' = Append(trace, Event("workflow", "get_pr_diff", run.platform, ok))
        /\ run' = IF ok THEN [run EXCEPT !.pc = After("get_pr_diff")] ELSE Exit1
  /\ UNCHANGED <<pkg, env, adapters, cache, tool, threads>>
  /\ UNCHANGED sanVars

\* the prompt, review_text = asyncio.run(run_review_agent(prompt)) and the test of
\* review_text; answer is what the LLM returns, raises says that the call failed
RunLlm(answer, raises) ==
  /\ run.pc = "llm"
  /\ IF pkg = "agent" /\ PromptRaises(run.pr_info)
     THEN /\ run' = Exit1
          /\ trace' = trace
     ELSE /\ trace' = Append(trace, Event("workflow", "llm", 0, ~raises))
          /\ run' = IF raises \/ ~Truthy(answer) THEN Exit1
                    ELSE [run EXCEPT !.pc = After("llm"), !.review_text = answer,
                                     !.pr_info = JNull]
  /\ UNCHANGED <<pkg, env, adapters, last, cache, tool, threads>>
  /\ UNCHANGED sanVars

\* review_text = strip_markdown_wrapper(review_text)
RunSanitize ==
  /\ run.pc = "sanitize"
  /\ LET r == review_body(run.review_text)
         ok == r.exc = "none"
     IN /\ trace' = Append(trace, Event("workflow", "strip_markdown_wrapper", 0, ok))
        /\ run' = IF ok THEN [run EXCEPT !.pc = After("sanitize"), !.body = r.value]
                  ELSE Exit1
  /\ UNCHANGED <<pkg, env, adapters, last, cache, tool, threads>>
  /\ UNCHANGED sanVars

\* platform.post_pr_comment(repo, pr_number, review_text), the URL for the log, and
\* the end of the run
RunPost(p) ==
  /\ run.pc = "post"
  /\ LET r == post_pr_comment(adapters[run.platform], run.repo, run.pr_number,
                              run.body.str, p)
         ok == r.call.exc.type = "none"
     IN /\ last' = [Called("post_pr_comment", run.platform, r) EXCEPT !.body = run.body.str]
        /\ trace' = Append(trace, Event("workflow", "post_pr_comment", run.platform, ok))
                       \o NameAsked(run.platform,
                                    IF ok THEN NamesAskedForUrl(adapters[run.platform]) ELSE 0)
        /\ run' = IF ok THEN [run EXCEPT !.pc = After("post"), !.exit = 0] ELSE Exit1
  /\ UNCHANGED <<pkg, env, adapters, cache, tool, threads>>
  /\ UNCHANGED sanVars

\* the LLM of workflow() may call the tools before it answers
ToolsOffered == run.pc = "llm" /\ pkg = "pr_agent"

RunNext ==
  \/ RunGetPlatform
  \/ RunValidate
  \/ \E raises \in BOOLEAN : RunCloud(raises)
  \/ \E p \in PlainResults : RunSetupAuth(p)
  \/ RunIds
  \/ /\ run.pc = "get_pr_info"
     /\ \E p \in ViewResults(adapters[run.platform].cls) : RunGetPrInfo(p)
  \/ \E p \in DiffResults : RunGetPrDiff(p)
  \/ \E answer \in LlmTexts : \E raises \in BOOLEAN : RunLlm(answer, raises)
  \/ RunSanitize
  \/ \E p \in PlainResults : RunPost(p)
  \/ /\ ToolsOffered
     /\ \E platform \in ToolPlatforms : \E pa \in ToolAuthResults :
          \E pf \in ToolViewResults(platform) :
            ToolGetPrInfo(platform, run.repo, run.pr_number, pa, pf)
  \/ /\ ToolsOffered
     /\ \E platform \in ToolPlatforms : \E pa \in ToolAuthResults :
          \E pf \in ToolDiffResults :
            ToolGetPrDiff(platform, run.repo, run.pr_number, pa, pf)

RunSpec == RunInit /\ [][RunNext]_vars

(***************************************************************************)
(* Properties of the factory and the adapters.                             *)
(***************************************************************************)
NameGitHub == <<"G", "i", "t", "H", "u", "b">>
NameGitLab == <<"G", "i", "t", "L", "a", "b">>

\* p spells key in some casing
CasePairs ==
  { <<"G", "g">>, <<"I", "i">>, <<"T", "t">>, <<"H", "h">>, <<"U", "u">>,
    <<"B", "b">>, <<"L", "l">>, <<"A", "a">> }
IsCasingOf(p, key) ==
  /\ Len(p) = Len(key)
  /\ \A i \in 1..Len(key) : p[i] = key[i] \/ <<p[i], key[i]>> \in CasePairs

\* C6: a step of get_platform with any casing of github or gitlab adds one fresh
\* adapter of the matching class, whose get_platform_name() is GitHub or GitLab, and
\* leaves the other adapters alone; with any other provider it raises ValueError and
\* the adapters are as before.
C6_FactoryByProvider ==
  [][last'.op = "get_platform" =>
       LET p == last'.provider
           a == last'.adapter
           want(cls, name) ==
             /\ last'.call.exc.type = "none"
             /\ a = Len(adapters) + 1
             /\ Len(adapters') = a
             /\ SubSeq(adapters', 1, Len(adapters)) = adapters
             /\ adapters'[a] = [cls |-> cls, auth_method |-> "None", token |-> Unset]
             /\ get_platform_name(adapters'[a]) = name
       IN IF IsCasingOf(p, KeyGithub) THEN want("GitHubPlatform", NameGitHub)
          ELSE IF IsCasingOf(p, KeyGitlab) THEN want("GitLabPlatform", NameGitLab)
          ELSE /\ last'.call.exc.type = "ValueError"
               /\ last'.adapter = 0
               /\ adapters' = adapters]_vars

\* C6: the factory made a second adapter, for a provider written in capitals
C6_Witness ==
  /\ last.op = "get_platform"
  /\ last.provider = <<"G", "I", "T", "L", "A", "B">>
  /\ last.adapter = 2
  /\ adapters[2].cls = "GitLabPlatform"
  /\ get_platform_name(adapters[2]) = NameGitLab

\* the latest call is get_pr_info of an adapter of class cls whose process exited 0
InfoFetched(cls) ==
  /\ last.op = "get_pr_info"
  /\ adapters[last.adapter].cls = cls
  /\ Len(last.started) = 1
  /\ last.started[1].rc = 0

\* the standard output is one JSON document, an object
IsObjectOutput(out) == Len(out) = 1 /\ out[1].kind = "json" /\ out[1].doc.kind = "dict"

IsStrAt(d, key) == key \in DOMAIN d.fields /\ d.fields[key].kind = "str"

\* a valid merge request payload of GitLab
IsValidMergeRequest(d) ==
  /\ d.kind = "dict"
  /\ \A k \in {"title", "description", "source_branch", "target_branch"} : IsStrAt(d, k)
  /\ "author" \in DOMAIN d.fields
  /\ d.fields["author"].kind = "dict"
  /\ IsStrAt(d.fields["author"], "username")

\* C7: GitLabPlatform.get_pr_info on a valid merge request payload returns a record
\* with body = description, author.login = author.username,
\* headRefName = source_branch, baseRefName = target_branch, title = title, and no
\* other top-level key.
C7_GitlabNormalized ==
  (/\ InfoFetched("GitLabPlatform")
   /\ IsObjectOutput(last.started[1].stdout)
   /\ IsValidMergeRequest(last.started[1].stdout[1].doc))
  => LET mr == last.started[1].stdout[1].doc.fields
         got == last.call.value
     IN /\ last.call.exc.type = "none"
        /\ got.kind = "dict"
        /\ DOMAIN got.fields = {"title", "body", "author", "headRefName", "baseRefName"}
        /\ got.fields["title"] = mr["title"]
        /\ got.fields["body"] = mr["description"]
        /\ got.fields["author"].kind = "dict"
        /\ DOMAIN got.fields["author"].fields = {"login"}
        /\ got.fields["author"].fields["login"] = mr["author"].fields["username"]
        /\ got.fields["headRefName"] = mr["source_branch"]
        /\ got.fields["baseRefName"] = mr["target_branch"]

\* C7: a valid payload that carries a further key was normalised
C7_Witness ==
  /\ InfoFetched("GitLabPlatform")
  /\ IsObjectOutput(last.started[1].stdout)
  /\ IsValidMergeRequest(last.started[1].stdout[1].doc)
  /\ "iid" \in DOMAIN last.started[1].stdout[1].doc.fields
  /\ last.call.exc.type = "none"
  /\ last.call.value.fields["headRefName"] = JStr("feature")

\* the value upstream gave for a key, the empty string if it gave none
Upstream(d, key) ==
  IF d.kind = "dict" /\ key \in DOMAIN d.fields /\ d.fields[key].kind = "str"
  THEN d.fields[key] ELSE JStr("")
UpstreamAuthor(d, key) ==
  IF d.kind = "dict" /\ "author" \in DOMAIN d.fields
  THEN Upstream(d.fields["author"], key) ELSE JStr("")

\* C8 as stated: get_pr_info of either adapter, given a JSON object by its tool,
\* returns a record in which title, body, author login, source branch and target
\* branch are all there and are strings, the empty string standing for what upstream
\* left out or gave as null, and does not raise.
C8_AsStated ==
  (/\ last.op = "get_pr_info"
   /\ Len(last.started) = 1
   /\ last.started[1].rc = 0
   /\ IsObjectOutput(last.started[1].stdout))
  => LET d == last.started[1].stdout[1].doc
         github == adapters[last.adapter].cls = "GitHubPlatform"
         got == last.call.value
     IN /\ last.call.exc.type = "none"
        /\ got.kind = "dict"
        /\ {"title", "body", "author", "headRefName", "baseRefName"} \subseteq DOMAIN got.fields
        /\ got.fields["title"] = Upstream(d, "title")
        /\ got.fields["body"] = Upstream(d, IF github THEN "body" ELSE "description")
        /\ got.fields["author"].kind = "dict"
        /\ "login" \in DOMAIN got.fields["author"].fields
        /\ got.fields["author"].fields["login"]
             = UpstreamAuthor(d, IF github THEN "login" ELSE "username")
        /\ got.fields["headRefName"]
             = Upstream(d, IF github THEN "headRefName" ELSE "source_branch")
        /\ got.fields["baseRefName"]
             = Upstream(d, IF github THEN "baseRefName" ELSE "target_branch")

\* C9 as stated: when the tool exits 0 and its standard output (free of escape
\* sequences) is not one JSON object, get_pr_info fails with the JSON parse error and
\* returns no record.
C9_AsStated ==
  (/\ last.op = "get_pr_info"
   /\ Len(last.started) = 1
   /\ last.started[1].rc = 0
   /\ \A i \in 1..Len(last.started[1].stdout) : last.started[1].stdout[i].kind # "ansi"
   /\ ~IsObjectOutput(last.started[1].stdout))
  => /\ last.call.exc.type = "JSONDecodeError"
     /\ last.call.value = JNull

\* the latest call started the glab auth login process
IsLoginCall ==
  /\ last.op = "setup_auth"
  /\ Len(last.started) = 1
  /\ last.started[1].argv[1] = W("glab")
  /\ last.started[1].argv[3] = W("login")

\* C10: when the process of get_pr_info, get_pr_diff, post_pr_comment or of the
\* GitLab login exits non-zero, the call raises an error that carries the exit code,
\* the captured standard output and the captured standard error, and returns nothing.
C10_FailureCarriesOutput ==
  (/\ last.op \in {"get_pr_info", "get_pr_diff", "post_pr_comment"} \/ IsLoginCall
   /\ Len(last.started) = 1
   /\ last.started[1].rc # 0)
  => /\ last.call.exc.type = "CalledProcessError"
     /\ last.call.exc.returncode = last.started[1].rc
     /\ last.call.exc.stdout = last.started[1].stdout
     /\ last.call.exc.stderr = last.started[1].stderr
     /\ last.call.value = JNull
     /\ last.call.text = NoOutput

\* C10: the GitLab login exited 2 with text on both streams
C10_Witness ==
  /\ IsLoginCall
  /\ last.started[1].rc = 2
  /\ last.call.exc.type = "CalledProcessError"
  /\ last.call.exc.stderr = "HTTP 404"
  /\ last.call.exc.stdout = <<TextChunk>>

\* the latest call is one of the operations that fetch or post
IsFetchOrPost == last.op \in {"get_pr_info", "get_pr_diff", "post_pr_comment"}

\* C11: a call of get_pr_info, get_pr_diff or post_pr_comment starts one process and
\* no more (none only when the tool is not installed), and when that process failed
\* no other process was started before CalledProcessError left the call.
C11_NoRetries ==
  IsFetchOrPost =>
    /\ Len(last.started) <= 1
    /\ (Len(last.started) = 0) <=> (last.call.exc.type = "FileNotFoundError")
    /\ (Len(last.started) = 1 /\ last.started[1].rc # 0)
         => last.call.exc.type = "CalledProcessError"

\* C11: a diff command failed and was not started again
C11_Witness ==
  /\ last.op = "get_pr_diff"
  /\ Len(last.started) = 1
  /\ last.started[1].rc = 1
  /\ last.started[1].argv[5] = W("diff")
  /\ last.call.exc.type = "CalledProcessError"

\* C12: post_pr_comment of both adapters starts the tool itself with eight arguments,
\* whatever the body is: the seventh is the flag --body (gh) or --message (glab), the
\* eighth is the body character for character, and no other argument holds text of
\* the body.
C12_BodyIsOneArgument ==
  (last.op = "post_pr_comment" /\ Len(last.started) = 1) =>
    LET argv == last.started[1].argv
        github == adapters[last.adapter].cls = "GitHubPlatform"
    IN /\ Len(argv) = 8
       /\ argv[1] = W(IF github THEN "gh" ELSE "glab")
       /\ argv[7] = W(IF github THEN "--body" ELSE "--message")
       /\ argv[8].text = last.body
       /\ argv[8].word = ""
       /\ \A i \in 1..7 : argv[i].text = <<>>

\* C12: a body with a quote, a dollar, a bracket, a semicolon, a line break and a
\* blank was posted through glab
C12_Witness ==
  /\ last.op = "post_pr_comment"
  /\ adapters[last.adapter].cls = "GitLabPlatform"
  /\ Len(last.started) = 1
  /\ last.body = <<"\"", "$", "(", ";", "\n", "'", " ">>
  /\ last.started[1].argv[8].text = last.body

\* C13: a step of GitHubPlatform.setup_auth (revisions with an authentication state)
\* on a fresh adapter: with GH_TOKEN it records the token and the token method and
\* starts no process; without, it starts gh auth status at most once, returns with
\* the cli method exactly when that process exited 0, and else raises RuntimeError
\* and leaves the adapter without a method.
C13_GithubAuth ==
  [][(/\ last'.op = "setup_auth"
      /\ pkg # "pr_agent_first"
      /\ last'.adapter \in DOMAIN adapters
      /\ adapters[last'.adapter] = NewAdapter("GitHubPlatform"))
     => LET after == adapters'[last'.adapter]
            started == last'.started
            exc == last'.call.exc
        IN IF IsSet(env.GH_TOKEN)
           THEN /\ exc.type = "none"
                /\ started = <<>>
                /\ after.auth_method = "token"
                /\ after.token = env.GH_TOKEN
           ELSE /\ Len(started) <= 1
                /\ \A i \in DOMAIN started :
                     started[i].argv = <<W("gh"), W("auth"), W("status")>>
                /\ (exc.type = "none") <=> (Len(started) = 1 /\ started[1].rc = 0)
                /\ exc.type = "none" => after.auth_method = "cli" /\ after.token = Unset
                /\ exc.type # "none"
                     => exc.type = "RuntimeError" /\ after = NewAdapter("GitHubPlatform")]_vars

\* C13: without GH_TOKEN, gh auth status exited 0 and the cli method was recorded
C13_Witness ==
  /\ last.op = "setup_auth"
  /\ pkg = "agent"
  /\ adapters[last.adapter].cls = "GitHubPlatform"
  /\ ~IsSet(env.GH_TOKEN)
  /\ Len(last.started) = 1
  /\ last.started[1].argv = <<W("gh"), W("auth"), W("status")>>
  /\ last.started[1].rc = 0
  /\ adapters[last.adapter].auth_method = "cli"

\* the latest call is setup_auth of a GitLab adapter
GitlabAuthCalled ==
  /\ last.op = "setup_auth"
  /\ adapters[last.adapter].cls = "GitLabPlatform"

\* the host glab is to log in at
ConfiguredHost ==
  IF env.CI_SERVER_HOST = Unset THEN "gitlab.com" ELSE env.CI_SERVER_HOST

\* the call ran argv once (not at all when glab is not installed) and raised exactly
\* when that did not exit 0
RanOnce(argv) ==
  /\ Len(last.started) <= 1
  /\ \A i \in DOMAIN last.started : last.started[i].argv = argv
  /\ (Len(last.started) = 0) <=> (last.call.exc.type = "FileNotFoundError")
  /\ Len(last.started) = 1
       => /\ (last.call.exc.type = "none") <=> (last.started[1].rc = 0)
          /\ last.started[1].rc # 0 => last.call.exc.type = "CalledProcessError"

RanNothing == last.started = <<>> /\ last.call.exc.type = "none"

TokenLogin ==
  <<W("glab"), W("auth"), W("login"), W("--token"), W(env.GITLAB_TOKEN),
    W("--hostname"), W(ConfiguredHost)>>

ToolEvents(ops) == {i \in DOMAIN trace : trace[i].by = "tools" /\ trace[i].op \in ops}
\* the class of the adapter an event is about
EventClass(i) == adapters[trace[i].adapter].cls
\* the adapter objects of the tool layer that authenticated
ToolAuthenticated == {i \in ToolEvents({"setup_auth"}) : trace[i].ok}
FetchOps == {"get_pr_info", "get_pr_diff"}

\* C19: after any sequence of tool calls the cache holds, under lower-case keys, at
\* most one adapter object per provider; for each provider setup_auth of the tool
\* layer succeeded at most once; and once it succeeded, no later tool call for that
\* provider constructs an adapter or authenticates: it fetches with the cached object.
C19_OneCachedAdapterPerProvider ==
  /\ \A k \in DOMAIN cache :
       /\ k = Lower(k)
       /\ cache[k] \in DOMAIN adapters
       /\ get_platform(k).obj.cls = adapters[cache[k]].cls
  /\ \A k1, k2 \in DOMAIN cache :
       adapters[cache[k1]].cls = adapters[cache[k2]].cls => k1 = k2
  /\ \A i, j \in ToolAuthenticated : EventClass(i) = EventClass(j) => i = j
  /\ \A i \in ToolAuthenticated :
       /\ \E k \in DOMAIN cache : cache[k] = trace[i].adapter
       /\ \A j \in ToolEvents({"get_platform", "setup_auth"}) :
            j > i /\ trace[j].adapter # 0 => EventClass(j) # EventClass(i)
       /\ \A j \in ToolEvents(FetchOps) :
            j > i /\ EventClass(j) = EventClass(i) => trace[j].adapter = trace[i].adapter

\* the second call names the provider in another casing and fetches with the adapter
\* the first call cached
C19_Witness ==
  /\ tool.count = 2
  /\ tool.platform = PyStr(<<"G", "i", "t", "H", "u", "b">>)
  /\ DOMAIN cache = {KeyGithub}
  /\ Len(adapters) = 1
  /\ Cardinality(ToolEvents(FetchOps)) = 2
  /\ Cardinality(ToolEvents({"setup_auth"})) = 1

\* what a tool function has answered after a call with these arguments
ToolAnswered(platform, repo, pr_number) ==
  LET fetched == /\ Len(trace') > Len(trace)
                 /\ trace'[Len(trace')].op = tool'.name
                 /\ trace'[Len(trace')].ok
  IN /\ tool'.raised = NoExc
     /\ tool'.status \in {"success", "error"}
     /\ tool'.status = "success" => fetched
     /\ ~fetched => tool'.status = "error"
     /\ tool'.status = "error" =>
          /\ tool'.error.template # "none"
          /\ tool'.platform = platform
          /\ tool'.repo = repo
          /\ tool'.pr_number = pr_number

\* C20: a call of get_pr_info or get_pr_diff of the tool layer raises nothing; it
\* answers status "success" only if the fetch of the adapter returned, and in every
\* other case status "error" with a message and the platform, repository and number
\* it was called with.
C20_ToolsNeverRaise ==
  [][\A platform \in ToolPlatforms : \A repo \in Repos : \A n \in PrNumbers :
       \A pa \in ToolAuthResults :
         /\ \A pf \in ToolViewResults(platform) :
              ToolGetPrInfo(platform, repo, n, pa, pf) => ToolAnswered(platform, repo, n)
         /\ \A pf \in ToolDiffResults :
              ToolGetPrDiff(platform, repo, n, pa, pf) => ToolAnswered(platform, repo, n)]_vars

\* a tool call whose fetch failed in the CLI, and one whose platform is no string
C20_Witness ==
  /\ tool.count = 2
  /\ tool.status = "error"
  /\ tool.error.exc.type = "AttributeError"
  /\ tool.platform = PyInt(5)
  /\ \E i \in ToolEvents(FetchOps) : ~trace[i].ok

(***************************************************************************)
(* Properties of a run.                                                    *)
(***************************************************************************)
\* the events of main() or workflow() itself, by their position in the trace
WorkflowEvents(ops) == {i \in DOMAIN trace : trace[i].by = "workflow" /\ trace[i].op \in ops}
\* the events in which setup_auth raised
AuthFailures == {i \in DOMAIN trace : trace[i].op = "setup_auth" /\ ~trace[i].ok}

\* C15: once setup_auth of an adapter raised, nothing is called on that adapter any
\* more.  If main() or workflow() made the call, it is the last event of the run,
\* which ends with exit status 1 before get_pr_info, get_pr_diff, the LLM and
\* post_pr_comment; if the tool layer made it, the tool call answers with an error
\* and has not fetched.
C15_NoCallAfterFailedAuth ==
  \A i \in AuthFailures :
    /\ \A j \in DOMAIN trace : j > i => trace[j].adapter # trace[i].adapter
    /\ trace[i].by = "workflow" =>
         /\ i = Len(trace)
         /\ run.pc = "exit"
         /\ run.exit = 1
         /\ last.op = "setup_auth"
         /\ tool.count = 0
    /\ trace[i].by = "tools" /\ i = Len(trace) =>
         /\ tool.status = "error"
         /\ tool.data = JNull
         /\ tool.diff = NoOutput

\* main() whose login call failed
C15_Witness ==
  /\ pkg = "agent"
  /\ run.exit = 1
  /\ Len(trace) = 3
  /\ trace[3] = Event("workflow", "setup_auth", 1, FALSE)
  /\ last.call.exc.type = "CalledProcessError"

\* a tool call of the run whose adapter could not authenticate, after one that could
C15_ToolAuthFailed ==
  /\ tool.count = 2
  /\ trace[Len(trace)] = Event("tools", "setup_auth", 3, FALSE)
  /\ \E i \in DOMAIN trace : trace[i].by = "tools" /\ trace[i].op \in FetchOps

\* strip_markdown_wrapper of the revision that runs, applied to v
SanitizedOnce(v) ==
  IF pkg = "agent" THEN strip_markdown_wrapper_agent(v).value
  ELSE strip_markdown_wrapper(v).value

\* C16: in a run of main() or workflow() that called post_pr_comment, the body of that
\* call is the result of one application of strip_markdown_wrapper to the text the LLM
\* returned, and the run applied the sanitizer once, after the LLM and before the post.
C16_PostedBodyIsSanitizedOnce ==
  \A i \in WorkflowEvents({"post_pr_comment"}) :
    /\ last.op = "post_pr_comment"
    /\ PyStr(last.body) = SanitizedOnce(run.review_text)
    /\ run.body = SanitizedOnce(run.review_text)
    /\ \E k \in WorkflowEvents({"strip_markdown_wrapper"}) :
         /\ WorkflowEvents({"strip_markdown_wrapper"}) = {k}
         /\ k = i - 1
         /\ trace[k].ok
         /\ trace[k - 1] = Event("workflow", "llm", 0, TRUE)

\* a run that posted the content of a wrapped answer
C16_Witness ==
  /\ run.exit = 0
  /\ run.review_text = PyStr(Fence \o NL \o <<"o", "k">> \o NL \o Fence)
  /\ last.op = "post_pr_comment"
  /\ last.body = <<"o", "k">>
  /\ last.call.exc.type = "none"

\* the calls of one run in the order the claim gives
RunOrder ==
  <<"get_platform", "setup_auth", "get_pr_info", "get_pr_diff", "llm",
    "strip_markdown_wrapper", "post_pr_comment">>

\* the calls of the run so far, those of get_platform_name left out
Operations == SelectSeq(trace, LAMBDA ev : ev.op # "get_platform_name")

\* what main() has called so far is a beginning of RunOrder, on the one adapter the
\* factory returned, and every call but the latest returned normally
OperationsInOrder ==
  /\ Len(Operations) <= Len(RunOrder)
  /\ \A i \in DOMAIN Operations :
       /\ Operations[i].by = "workflow"
       /\ Operations[i].op = RunOrder[i]
       /\ Operations[i].adapter =
            IF Operations[i].op \in {"llm", "strip_markdown_wrapper"} THEN 0
            ELSE IF Operations[i].op = "get_platform" /\ ~Operations[i].ok THEN 0
            ELSE 1
       /\ i < Len(Operations) => Operations[i].ok
  /\ Len(adapters) <= 1
  /\ run.exit = 0 => Len(Operations) = Len(RunOrder) /\ Operations[Len(Operations)].ok
  /\ (Operations # <<>> /\ ~Operations[Len(Operations)].ok) => run.exit = 1

\* C17 as stated: the order of the calls of main() of src/agent, and nothing is called
\* on the adapter after post_pr_comment.
C17_AsStated ==
  pkg = "agent" =>
    /\ OperationsInOrder
    /\ \A i, j \in DOMAIN trace :
         trace[i].op = "post_pr_comment" /\ j > i => trace[j].adapter = 0

\* C17: the calls of main() of src/agent, get_platform_name aside, are a beginning of
\* get_platform, setup_auth, get_pr_info, get_pr_diff, the LLM, the sanitizer,
\* post_pr_comment, each made only after the one before returned normally, so
\* post_pr_comment is called at most once and is the last call that reaches the
\* platform; after it main() calls only get_platform_name, and only if it succeeded.
C17_OrderOfARun ==
  pkg = "agent" =>
    /\ OperationsInOrder
    /\ \A i, j \in DOMAIN trace :
         trace[i].op = "post_pr_comment" /\ j > i =>
           trace[i].ok /\ trace[j].op = "get_platform_name"

\* a complete run of main(): the comment posted, then the name asked for the URL
C17_Witness ==
  /\ pkg = "agent"
  /\ run.pc = "done"
  /\ run.exit = 0
  /\ Len(Operations) = 7
  /\ Operations[7] = Event("workflow", "post_pr_comment", 1, TRUE)
  /\ trace[Len(trace)] = Event("workflow", "get_platform_name", 1, TRUE)
  /\ adapters[1].cls = "GitLabPlatform"

\* the calls of op so far, whoever made them
Calls(op) == {i \in DOMAIN trace : trace[i].op = op}

\* C18 as stated: in a run of workflow() one adapter object is constructed and
\* setup_auth is called once, whatever tool calls the LLM makes: never more than one,
\* and one of each from the moment the LLM is asked.
C18_AsStated ==
  pkg = "pr_agent" =>
    /\ Len(adapters) <= 1
    /\ Cardinality(Calls("setup_auth")) <= 1
    /\ run.pc \in {"llm", "sanitize", "post", "done"} =>
         /\ Len(adapters) = 1
         /\ Cardinality(Calls("setup_auth")) = 1

(***************************************************************************)
(* Properties of the tool layer: what an error result says.                *)
(***************************************************************************)
\* the latest tool call ended in a process that exited with a status other than 0
\* under check=True
ToolCliFailed == tool.count > 0 /\ tool.error.exc.type = "CalledProcessError"

\* C21 as stated: when the CLI behind a tool call exits non-zero, the error result
\* holds what the process wrote to stderr.
C21_AsStated ==
  ToolCliFailed =>
    \A i \in DOMAIN tool.started :
      tool.started[i].rc # 0 => tool.error.exc.stderr = tool.started[i].stderr

(***************************************************************************)
(* Properties of the adapters: the token.                                  *)
(***************************************************************************)
\* the latest call started a process and was made on a GitLab adapter of the newest
\* revision while GITLAB_TOKEN is set
TokenAdapterRan ==
  /\ pkg = "pr_agent"
  /\ last.started # <<>>
  /\ adapters[last.adapter].cls = "GitLabPlatform"
  /\ IsSet(env.GITLAB_TOKEN)

\* C22: whatever the sequence of setup_auth, get_pr_info, get_pr_diff and
\* post_pr_comment calls on a GitLab adapter of src/src/pr_agent, no element of the
\* command line of a process it starts is the value of GITLAB_TOKEN; the process
\* gets the token in the variable GITLAB_TOKEN of its environment.
C22_TokenNotInArgv ==
  TokenAdapterRan =>
    \A i \in DOMAIN last.started :
      /\ \A k \in DOMAIN last.started[i].argv :
           last.started[i].argv[k].word # env.GITLAB_TOKEN
      /\ last.started[i].env.GITLAB_TOKEN = env.GITLAB_TOKEN

\* a comment posted by an adapter that authenticated with the token
C22_Witness ==
  /\ TokenAdapterRan
  /\ adapters[last.adapter].auth_method = "token"
  /\ adapters[last.adapter].token = env.GITLAB_TOKEN
  /\ last.op = "post_pr_comment"
  /\ last.started[1].argv[1] = W("glab")
  /\ last.call.exc.type = "none"

(***************************************************************************)
(* Properties of a run: the validation of the environment.                 *)
(***************************************************************************)
\* the names ValidateEnvironmentVariables reports for a variable
ReportedAs(name) == {name, name \o " (or platform-specific equivalent)"}
\* the variables main() of src/agent requires with the adapter self, and those of
\* them that are not set
RequiredVariables(self) ==
  {"GOOGLE_CLOUD_PROJECT", "GOOGLE_CLOUD_LOCATION", "REPOSITORY", "PR_NUMBER"}
    \cup (IF self.cls = "GitLabPlatform" THEN {"GITLAB_TOKEN"} ELSE {})
Absent(self) == {name \in RequiredVariables(self) : ~IsSet(env[name])}
\* the adapter of the run, once the factory returned it
RunReachedValidation == pkg = "agent" /\ run.platform \in DOMAIN adapters

\* C23: in main() of src/agent, if a required variable is absent, then
\* ValidateEnvironmentVariables has every absent name in its list, the run does
\* not get past the validation, where it exits with status 1, and neither
\* setup_auth nor any process has been started.
C23_ValidationBeforeAuth ==
  (RunReachedValidation /\ Absent(adapters[run.platform]) # {}) =>
    /\ \A name \in Absent(adapters[run.platform]) :
         \E i \in DOMAIN ValidateEnvironmentVariables(adapters[run.platform]) :
           ValidateEnvironmentVariables(adapters[run.platform])[i] \in ReportedAs(name)
    /\ run.pc \in {"validate", "exit"}
    /\ run.pc = "exit" => run.exit = 1
    /\ Calls("setup_auth") = {}
    /\ last = NoCall
    /\ \A i \in DOMAIN trace : trace[i].op \in {"get_platform", "get_platform_name"}

\* a GitLab run without token, project and location: three names, and the exit
C23_Witness ==
  /\ RunReachedValidation
  /\ Absent(adapters[run.platform]) =
       {"GOOGLE_CLOUD_PROJECT", "GOOGLE_CLOUD_LOCATION", "GITLAB_TOKEN"}
  /\ Len(ValidateEnvironmentVariables(adapters[run.platform])) = 3
  /\ run.pc = "exit"
  /\ run.exit = 1

\* a run of main() of src/agent with --provider gitlab and no GITLAB_TOKEN
GitlabRunWithoutToken ==
  /\ RunReachedValidation
  /\ adapters[run.platform].cls = "GitLabPlatform"
  /\ ~IsSet(env.GITLAB_TOKEN)

\* C30: a run of main() of src/agent with provider gitlab and GITLAB_TOKEN not set
\* stops in ValidateEnvironmentVariables with exit status 1; setup_auth of the GitLab
\* adapter is never called in such a run, so each call of it in a run finds the token
\* and takes the login branch.
C30_TokenlessBranchUnreached ==
  /\ GitlabRunWithoutToken =>
       /\ run.pc \in {"validate", "exit"}
       /\ run.pc = "exit" => run.exit = 1
       /\ Calls("setup_auth") = {}
       /\ last.op # "setup_auth"
  /\ \A i \in Calls("setup_auth") :
       (pkg = "agent" /\ adapters[trace[i].adapter].cls = "GitLabPlatform") =>
         IsSet(env.GITLAB_TOKEN)

\* the GitLab run without token after its validation
C30_Witness ==
  /\ GitlabRunWithoutToken
  /\ Absent(adapters[run.platform]) = {"GITLAB_TOKEN"}
  /\ run.pc = "exit"
  /\ run.exit = 1
  /\ Len(trace) = 2

(***************************************************************************)
(* Properties of the tool layer: the cache after a failure.                *)
(***************************************************************************)
\* the adapter objects in the cache
Cached == {cache[k] : k \in DOMAIN cache}

\* C26: the cache of the tool layer holds exactly the adapters whose setup_auth
\* returned normally, each of them authenticated; a call in which the factory or
\* setup_auth raised has stored nothing, and a fetch for the provider after it was
\* made with an adapter that was constructed and authenticated later.
C26_CacheOnlyAuthenticated ==
  /\ Cached = {trace[i].adapter : i \in ToolAuthenticated}
  /\ \A a \in Cached : adapters[a].auth_method \in {"token", "cli"}
  /\ \A i \in ToolEvents({"setup_auth"}) : ~trace[i].ok => trace[i].adapter \notin Cached
  /\ \A i \in ToolEvents({"get_platform"}) : ~trace[i].ok => trace[i].adapter = 0
  /\ \A i \in ToolEvents({"setup_auth"}) : \A j \in ToolEvents(FetchOps) :
       (~trace[i].ok /\ j > i /\ EventClass(j) = EventClass(i)) =>
         \E k \in ToolAuthenticated : i < k /\ k < j /\ trace[k].adapter = trace[j].adapter

\* setup_auth raised in the first call and returned in the second call for the same
\* provider, which then fetched
C26_Witness ==
  /\ tool.count = 2
  /\ Len(adapters) = 2
  /\ adapters[1].cls = adapters[2].cls
  /\ Cached = {2}
  /\ \E i \in ToolEvents({"setup_auth"}) : ~trace[i].ok /\ trace[i].adapter = 1
  /\ \E j \in ToolEvents(FetchOps) : trace[j].adapter = 2

\* the platform argument of the latest tool call names a provider of the factory
ToolPlatformSupported ==
  isinstance_str(tool.platform) /\ Lower(tool.platform.str) \in ProviderKeys

\* C27 as stated: a tool function answers "Invalid platform ..." only if the platform
\* it was given is no supported provider.
C27_AsStated == tool.error.template = "Invalid platform" => ~ToolPlatformSupported

(***************************************************************************)
(* Properties of the tool layer: calls that overlap.                       *)
(***************************************************************************)
\* two different threads that asked for the same provider
SameProvider(t, u) ==
  /\ t # u
  /\ threads[t].pc # "idle"
  /\ threads[t].platform_lower = threads[u].platform_lower

\* C28 as stated: of two calls of _get_or_create_platform for the same provider that
\* overlap, one at most constructs and authenticates an adapter, and both return the
\* same cached object.
C28_AsStated ==
  \A t, u \in Threads :
    SameProvider(t, u) =>
      /\ ~(threads[t].plat # 0 /\ threads[u].plat # 0)
      /\ (threads[t].pc = "done" /\ threads[u].pc = "done") =>
           threads[t].returned = threads[u].returned
      /\ Cardinality({i \in ToolEvents({"setup_auth"}) :
                        adapters[trace[i].adapter].cls
                          = providers(threads[t].platform_lower)}) <= 1

\* both calls for one provider ran setup_auth and returned different objects
C28_TwoAdaptersReturned ==
  \E t, u \in Threads :
    /\ SameProvider(t, u)
    /\ threads[t].pc = "done" /\ threads[u].pc = "done"
    /\ threads[t].returned # threads[u].returned
    /\ Cardinality(ToolAuthenticated) = 2

(***************************************************************************)
(* Properties of a run: the body of the comment.                           *)
(***************************************************************************)
\* C29 as stated: whenever a run has called post_pr_comment, the body it passed is a
\* string that is not empty.
C29_AsStated ==
  \A i \in WorkflowEvents({"post_pr_comment"}) :
    /\ run.body.type = "str"
    /\ Len(run.body.str) > 0
    /\ Len(last.body) > 0

(***************************************************************************)
(* The sanitizer as a state machine: one call, then a second call on the   *)
(* result of the first.  The adapters take no part in it.                  *)
(***************************************************************************)
SanInit ==
  /\ san_in \in SanitizerInputs
  /\ san_out = Pending
  /\ san_again = Pending
  /\ AdaptersIdle

Sanitize ==
  /\ san_out = Pending
  /\ san_out' = strip_markdown_wrapper(san_in)
  /\ UNCHANGED <<san_in, san_again>>
  /\ UNCHANGED adapterVars
  /\ UNCHANGED runVars

SanitizeAgain ==
  /\ san_out.exc = "none"
  /\ san_again = Pending
  /\ san_again' = strip_markdown_wrapper(san_out.value)
  /\ UNCHANGED <<san_in, san_out>>
  /\ UNCHANGED adapterVars
  /\ UNCHANGED runVars

SanNext == Sanitize \/ SanitizeAgain

SanSpec == SanInit /\ [][SanNext]_vars

(***************************************************************************)
(* Properties of the sanitizer.  They describe a text by its first line    *)
(* and its last four characters, not by the patterns of the code.          *)
(***************************************************************************)
\* the first call was made on a non-empty string
SanCalledOnText == san_out # Pending /\ san_in.type = "str" /\ Len(san_in.str) > 0

\* the whitespace-trimmed form of the input text
SanTrimmed == Strip(san_in.str)

\* the position of the first line break of t, 0 if it has none
FirstBreak(t) ==
  IF \E i \in 1..Len(t) : t[i] = "\n"
  THEN SetMin({i \in 1..Len(t) : t[i] = "\n"}) ELSE 0

\* t starts with exactly three backticks, then markdown, md or nothing, then at once
\* a line break: the position of that line break, else 0
PlainOpeningBreak(t) ==
  IF \E l \in {WordMarkdown, WordMd, <<>>} : HasAt(t, 1, Fence \o l \o NL)
  THEN FirstBreak(t) ELSE 0

\* the first line of t is an opening wrapper fence, which may carry whitespace
\* before its line break: the position of that line break, else 0
OpeningBreak(t) ==
  LET b == FirstBreak(t)
  IN IF /\ b > 0
        /\ \E l \in {WordMarkdown, WordMd, <<>>} :
             /\ HasAt(t, 1, Fence \o l)
             /\ AllSpace(t, 4 + Len(l), b)
     THEN b ELSE 0

\* t ends with a line break followed by three backticks
EndsWithClosingFence(t) == Len(t) >= 4 /\ HasAt(t, Len(t) - 3, NL \o Fence)

\* the text between the line break at b and the closing fence
Between(t, b) == SubSeq(t, b + 1, Len(t) - 4)

\* t is wrapped completely: opening fence line, content, closing fence
IsWrapped(t) ==
  OpeningBreak(t) > 0 /\ EndsWithClosingFence(t) /\ Len(t) - 3 > OpeningBreak(t)

Occurs(w, s) == \E i \in 1..(Len(s) - Len(w) + 1) : HasAt(s, i, w)
FencePositions(s) == {i \in 1..Len(s) : HasAt(s, i, Fence)}
CountBackticks(s) == Cardinality({i \in 1..Len(s) : s[i] = Backtick})

C2_InnerFencesVerbatim ==
  (SanCalledOnText /\ IsWrapped(SanTrimmed))
  => LET content == Between(SanTrimmed, OpeningBreak(SanTrimmed))
         result == san_out.value.str
     IN /\ san_out.exc = "none"
        /\ \A i \in FencePositions(content) : \A j \in FencePositions(content) :
             j >= i => Occurs(SubSeq(content, i, j + 2), result)
        /\ CountBackticks(result) = CountBackticks(content)

\* C2: the content of the stripped wrapper was itself a complete wrapper
C2_Witness ==
  /\ SanCalledOnText
  /\ IsWrapped(SanTrimmed)
  /\ IsWrapped(san_out.value.str)
  /\ HasAt(san_out.value.str, 1, Fence \o WordMarkdown)

\* C3: an incomplete wrapper is left as it is: opening fence without closing fence, or
\* closing fence without opening fence, gives the trimmed text.
C3_IncompleteUntouched ==
  (/\ SanCalledOnText
   /\ \/ OpeningBreak(SanTrimmed) > 0 /\ ~EndsWithClosingFence(SanTrimmed)
      \/ EndsWithClosingFence(SanTrimmed) /\ OpeningBreak(SanTrimmed) = 0)
  => san_out = Return(PyStr(SanTrimmed))

\* C3: a text with an opening fence only, with content, went through
C3_Witness ==
  /\ SanCalledOnText
  /\ OpeningBreak(SanTrimmed) > 0
  /\ ~EndsWithClosingFence(SanTrimmed)
  /\ Len(SanTrimmed) > OpeningBreak(SanTrimmed)
  /\ san_out = Return(PyStr(SanTrimmed))

\* C3: a text with a closing fence only went through
C3_WitnessClosingOnly ==
  /\ SanCalledOnText
  /\ EndsWithClosingFence(SanTrimmed)
  /\ OpeningBreak(SanTrimmed) = 0
  /\ san_out = Return(PyStr(SanTrimmed))

\* C4 as stated: the second call returns what the first call returned.
C4_AsStated == san_again # Pending => san_again = san_out

\* C4 amended: the second call returns what the first call returned, unless the
\* result of the first call is itself a completely wrapped text.
C4_IdempotentUnlessWrapped ==
  (/\ san_again # Pending
   /\ ~(san_out.value.type = "str" /\ IsWrapped(san_out.value.str)))
  => san_again = san_out

\* C4: a wrapper was removed by the first call and the second call changed nothing
C4_Witness ==
  /\ san_again # Pending
  /\ san_in.type = "str"
  /\ IsWrapped(SanTrimmed)
  /\ ~IsWrapped(san_out.value.str)
  /\ Len(san_out.value.str) > 0
  /\ san_again = san_out

\* C5: the call never raises; an empty string, None and every value that is no
\* string come back as they are; a string gives a string.
C5_NeverRaises ==
  san_out # Pending
  => /\ san_out.exc = "none"
     /\ (san_in.type # "str" \/ san_in.str = <<>>) => san_out.value = san_in
     /\ san_in.type = "str" => san_out.value.type = "str"

\* C5: a value that is no string and is not falsy went through the call
C5_Witness ==
  /\ san_out # Pending
  /\ san_in.type # "str"
  /\ Truthy(san_in)
  /\ san_out = Return(san_in)

(***************************************************************************)
(* Properties of the sanitizer of src/agent, as main() applies it.         *)
(***************************************************************************)
\* main() of src/agent has sanitized the answer of the LLM
AgentSanitized == pkg = "agent" /\ run.body # PyNone
\* the trimmed answer and, if it is wrapped, what its wrapper encloses
AgentTrimmed == Strip(run.review_text.str)
AgentContent == Strip(Between(AgentTrimmed, OpeningBreak(AgentTrimmed)))

\* C24 as stated: one call of the sanitizer of src/agent takes off one wrapper at
\* most: a wrapped text gives its content with every backtick of it, a fenced block
\* that is the wrapped content stays as it is, and a text with an opening fence only
\* comes back as the trimmed text.
C24_AsStated ==
  AgentSanitized =>
    /\ IsWrapped(AgentTrimmed) =>
         /\ CountBackticks(run.body.str) = CountBackticks(AgentContent)
         /\ IsWrapped(AgentContent) => run.body.str = AgentContent
    /\ (OpeningBreak(AgentTrimmed) > 0 /\ ~EndsWithClosingFence(AgentTrimmed)) =>
         run.body.str = AgentTrimmed

(***************************************************************************)
(* Properties of the sanitizer: which opening fences make a wrapper.       *)
(***************************************************************************)
\* what the first line of t holds after its first three characters, without the
\* whitespace at its end
LabelOf(t) == Strip(SubSeq(t, 4, FirstBreak(t) - 1))

\* t is enclosed in fences, and its opening fence has a label other than markdown
\* and md, or a fourth backtick
FencedWithOtherOpening(t) ==
  /\ HasAt(t, 1, Fence)
  /\ FirstBreak(t) > 4
  /\ ~IsSpace(t[4])
  /\ LabelOf(t) \notin {WordMarkdown, WordMd}
  /\ EndsWithClosingFence(t)
  /\ Len(t) - 3 >= FirstBreak(t)

\* C25: a text enclosed in fences whose opening fence carries another label than
\* markdown or md, or has four or more backticks, is no wrapper for
\* strip_markdown_wrapper: the result is the trimmed text, both fences in place.
C25_OnlyPlainFenceIsWrapper ==
  (SanCalledOnText /\ FencedWithOtherOpening(SanTrimmed)) =>
    /\ san_out = Return(PyStr(SanTrimmed))
    /\ HasAt(san_out.value.str, 1, Fence)
    /\ EndsWithClosingFence(san_out.value.str)

\* a block with another label and content went through
C25_Witness ==
  /\ SanCalledOnText
  /\ FencedWithOtherOpening(SanTrimmed)
  /\ LabelOf(SanTrimmed) = <<"x">>
  /\ Len(SanTrimmed) - 3 > FirstBreak(SanTrimmed)
  /\ san_in.str # SanTrimmed
  /\ san_out = Return(PyStr(SanTrimmed))

\* a block opened by four backticks went through
C25_FourBackticks ==
  /\ SanCalledOnText
  /\ FencedWithOtherOpening(SanTrimmed)
  /\ LabelOf(SanTrimmed) = <<Backtick>>
  /\ san_out = Return(PyStr(SanTrimmed))

====
